---- MODULE Spec2Model ----
(***************************************************************************)
(* State-machine model of the chunked-transfer core of the client library: *)
(*   core.py     CoreClient._request / _custom_request                     *)
(*   excel.py    WorkbookClient session handling and row-chunk loops       *)
(*   drive.py    DriveClient.upload_file / get_folder                      *)
(*   outlook.py  OutlookClient.upload_attachment / send_mail               *)
(*   misc.py     the column and address helpers; excel.py loop_write       *)
(* The program is single-threaded: one client operation runs at a time,    *)
(* from its call to its return or raise.  Every HTTP exchange is two       *)
(* steps, the request being put on the wire and its response being read.   *)
(***************************************************************************)
EXTENDS Integers, Sequences, FiniteSets, TLC

(* ----------------------------- bounds --------------------------------- *)
\* Number of distinct session handles the remote hands out.
MaxHandles == 2
\* Largest number of chunks a planned transfer of the model may have.
MaxChunks == 3
\* Small payload sizes and chunk sizes (bytes) tried beside the real ones.
MaxSmallBytes == 3
\* Rows, columns and cell budgets of the row-chunked reader and writer.
MaxRows == 3
MaxCols == 2
MaxCells == 2
\* Number of folder names in a target path of upload_file.
MaxDepth == 1
\* Session expiries the remote signals during one operation of several
\* requests (a single call is never limited: it refreshes at most once).
MaxRefreshes == 1
\* Largest column number, longest column name and largest shift (either
\* way) handed to the helpers of misc.py.
MaxColumn == 20000
MaxLetters == 2
MaxShift == 2
\* DataFrame columns handed to loop_write
MaxDfCols == 3
\* Attachment files handed to send_mail
MaxAttachments == 2

(* ------------------------- program constants -------------------------- *)
UPLOAD_LIMIT == 1024 * 1024 * 4
DEFAULT_CHUNK_SIZE == 1024 * 1024 * 5
\* outlook.py's own default chunk size (its DEFAULT_CHUNK_SIZE) and its own
\* limit of the attachments sent inline (its UPLOAD_LIMIT)
OUTLOOK_DEFAULT_CHUNK_SIZE == 1024 * 1024 * 4
OUTLOOK_UPLOAD_LIMIT == 1024 * 1024 * 3

\* session_id before the first refresh ('') and when the createSession
\* answer holds no 'id' (None); real handles are 1, 2, ...
EmptyId == -1
NoneId == 0

(* --------------------------- HTTP responses --------------------------- *)
\* A response as the code reads it: the status, whether Content-Type holds
\* application/json, and the JSON body's error code ("" when the body has no
\* error object).
Codes == {"", "InvalidSession", "Other"}
Statuses == {200, 404, 504}
Responses == {r \in [status : Statuses, json : BOOLEAN, code : Codes] : ~r.json => r.code = ""}
NoResp == [status |-> 0, json |-> FALSE, code |-> ""]

\* requests.Response.ok
ok(res) == res.status < 400
\* requests.Response.raise_for_status raises
raise_for_status(res) == res.status >= 400 /\ res.status < 600

\* Mutant: any JSON failure refreshes, whatever its error code.
NeedsRefresh_AnyCode(res) == ~ok(res) /\ res.json

\* excel.py: the test that sends _custom_request into refresh-and-reissue
NeedsRefresh(res) == ~ok(res) /\ res.json /\ res.code = "InvalidSession"

\* Mutant: the flag lets every failure pass, whatever its status.
Swallowed_AnyStatus(ignore_timeout, res) == ignore_timeout

\* core.py: the 504 pass-through of _request
Swallowed(ignore_timeout, res) == ignore_timeout /\ res.status = 504

\* core.py: _request raises on the response it got from _custom_request
Raises(ignore_timeout, res) ==
    /\ ~Swallowed(ignore_timeout, res)
    /\ \/ res.json /\ res.code # ""
       \/ raise_for_status(res)

Outcome(ignore_timeout, res) == IF Raises(ignore_timeout, res) THEN "raised" ELSE "returned"

\* Answers to createSession as _refresh_session_id reads them: a JSON body
\* with an id, a JSON body without one (an error object), a body json() rejects.
CreateAnswers == {"id", "noid", "notjson"}

\* What a call gives: a value, or an exception.
Raised == [ok |-> FALSE, value |-> <<>>]
Value(v) == [ok |-> TRUE, value |-> v]

\* No helper of misc.py is being called.
NoXl == [fn |-> "none", pc |-> "none"]

\* No send_mail is in progress.
NoMail == [pc |-> "none", sizes |-> <<>>, draft_attachments |-> <<>>,
           large_attachments |-> <<>>, attachments_size |-> 0, msg_id |-> FALSE,
           uploaded |-> 0, log |-> <<>>]

(* ------------------------------ state ---------------------------------- *)
VARIABLES
    op,           \* the client operation in progress, "idle" between operations
    pc,           \* its position
    outcome,      \* "none" while it runs, then "returned" or "raised"
    constructed,  \* a WorkbookClient exists
    session_id,   \* WorkbookClient.session_id
    result,       \* what it returned: "json", "response", "None" ("none" before)
    up,           \* locals of the chunked upload in progress
    rw,           \* locals of the row-chunked read or write in progress
    rq,           \* the _request call in progress
    net,          \* requests on the wire whose response has not been read
    log,          \* requests issued and responses read by the operation, in order
    closed,       \* history: _close_session has been called on a client holding a handle
    xl,           \* the call of a misc.py helper in progress, its arguments and results
    mail          \* locals of the send_mail in progress, and its requests so far

vars == <<op, pc, outcome, result, up, rw, constructed, session_id, rq, net, log, closed, xl, mail>>

Methods == {"get", "post", "put", "patch", "delete"}

\* A log entry.  Requests: kind names the request, lo/hi/total the range its
\* header or address names, size the bytes or rows its body carries.
\* Responses: kind "resp", lo the status of a chunk put's answer (0 for an
\* API call, whose response the call in progress holds), hi 1 when the
\* code went on without raising or reissuing, else 0.
\* ul/br are the corner addresses a range request names, code the error
\* code in the body of a chunk put's answer.
Ev(kind, lo, hi, total, size) ==
    [kind |-> kind, lo |-> lo, hi |-> hi, total |-> total, size |-> size,
     ul |-> <<>>, br |-> <<>>, code |-> ""]
Resp(status, accepted) == Ev("resp", status, IF accepted THEN 1 ELSE 0, 0, 0)
\* A request on the wire: the entry and the workbook-session-id header it
\* carries (EmptyId when it carries none).
Wire(e, sid) == [req |-> e, sid |-> sid]

NoRq == [pc |-> "idle", method |-> "get", kind |-> "none", lo |-> 0, hi |-> 0, size |-> 0,
         ul |-> <<>>, br |-> <<>>,
         ignore_timeout |-> FALSE, first |-> NoResp, second |-> NoResp,
         sid0 |-> EmptyId, from |-> 0, out |-> "none", input_header |-> EmptyId]

\* A call of get/post/put/patch/delete: _request is entered.
Call(method, kind, lo, hi, size, ignore_timeout) ==
    [NoRq EXCEPT !.pc = "send", !.method = method, !.kind = kind, !.lo = lo, !.hi = hi,
                 !.size = size,
                 !.ignore_timeout = ignore_timeout, !.sid0 = session_id, !.from = Len(log)]

\* Which class's _custom_request serves the operation.
WorkbookOps == {"request", "close", "get_range_data", "write_data"}
IsWorkbook == op \in WorkbookOps

\* The res _custom_request handed back to _request.
FinalRes == IF rq.second # NoResp THEN rq.second ELSE rq.first
\* core.py: what _request returns, res.json() or the Response itself.
Returned(as_json) == IF as_json /\ FinalRes.json THEN "json" ELSE "response"

NoUp == [file_size |-> 0, chunk_size |-> 0, names |-> 0, pos |-> 0,
         current_bytes |-> 0, transfer_bytes |-> 0, session_url |-> FALSE, eof |-> FALSE]

NoRw == [rows |-> 0, cols |-> 0, chunk_size |-> 0, row_chunk_size |-> 0, i |-> 0,
         address |-> <<>>, data |-> <<>>, ignore_timeout |-> FALSE]

Init ==
    /\ op = "idle"
    /\ pc = "none"
    /\ outcome = "none"
    /\ result = "none"
    /\ up = NoUp
    /\ rw = NoRw
    /\ constructed = FALSE
    /\ session_id = EmptyId
    /\ rq = NoRq
    /\ net = <<>>
    /\ log = <<>>
    /\ closed = FALSE
    /\ xl = NoXl
    /\ mail = NoMail

(* ----------------- WorkbookClient._refresh_session_id ------------------ *)
\* The createSession post goes through self.client, not through _request.
refresh_send ==
    /\ rq.pc = "refresh"
    /\ net' = Append(net, Wire(Ev("createSession", 0, 0, 0, 0), EmptyId))
    /\ log' = Append(log, Ev("createSession", 0, 0, 0, 0))
    /\ rq' = [rq EXCEPT !.pc = "create_await"]
    /\ UNCHANGED <<op, pc, outcome, result, up, rw, constructed, session_id, closed, xl, mail>>

\* Handles the remote may hand out: a fresh session never has the handle
\* the client holds.
Handles == 1..MaxHandles
FreshHandles == Handles \ {session_id}

\* session_res.json().get('id')
RefreshedId(answer, handle) == IF answer = "id" THEN handle ELSE NoneId

\* Mutant: a refresh also starts the row loop in progress over.
refresh_recv_restart ==
    /\ rq.pc = "create_await"
    /\ \E answer \in CreateAnswers, handle \in FreshHandles :
        /\ net' = Tail(net)
        /\ log' = Append(log, Resp(0, answer # "notjson"))
        /\ IF answer = "notjson"
           THEN /\ rq' = [rq EXCEPT !.pc = "done", !.out = "raised"]
                /\ UNCHANGED session_id
           ELSE /\ session_id' = RefreshedId(answer, handle)
                /\ rq' = [rq EXCEPT !.pc = IF op = "init" THEN "done" ELSE "resend",
                                    !.out = IF op = "init" THEN "returned" ELSE "none"]
    /\ rw' = [rw EXCEPT !.i = 0, !.data = <<>>]
    /\ UNCHANGED <<op, pc, outcome, result, up, constructed, closed, xl, mail>>

\* The answer to createSession: json() raises on a body that is no JSON;
\* otherwise session_id takes the body's id, None when it has none.
refresh_recv ==
    /\ rq.pc = "create_await"
    /\ \E answer \in CreateAnswers, handle \in FreshHandles :
        /\ net' = Tail(net)
        /\ log' = Append(log, Resp(0, answer # "notjson"))
        /\ IF answer = "notjson"
           THEN /\ rq' = [rq EXCEPT !.pc = "done", !.out = "raised"]
                /\ UNCHANGED session_id
           ELSE /\ session_id' = RefreshedId(answer, handle)
                /\ rq' = [rq EXCEPT !.pc = IF op = "init" THEN "done" ELSE "resend",
                                    !.out = IF op = "init" THEN "returned" ELSE "none"]
    /\ UNCHANGED <<op, pc, outcome, result, up, rw, constructed, closed, xl, mail>>

(* ---------------------- WorkbookClient.__init__ ------------------------ *)
init_start ==
    /\ op = "idle"
    /\ ~constructed
    /\ op' = "init"
    /\ pc' = "call"
    /\ session_id' = EmptyId
    /\ rq' = [NoRq EXCEPT !.pc = "refresh", !.kind = "createSession"]
    /\ UNCHANGED <<outcome, result, up, rw, constructed, net, log, closed, xl, mail>>

init_return ==
    /\ op = "init"
    /\ pc = "call"
    /\ rq.pc = "done"
    /\ pc' = "done"
    /\ outcome' = rq.out
    /\ constructed' = (rq.out = "returned")
    /\ result' = IF rq.out = "returned" THEN "None" ELSE "none"
    /\ UNCHANGED <<op, up, rw, session_id, rq, net, log, closed, xl, mail>>

(* ------------- CoreClient._request / _custom_request ------------------- *)
\* The 'workbook-session-id' a caller may pass in headers=: none, or the
\* first handle.
CallerHeaders == {EmptyId, 1}

\* Mutant: the caller's header wins over the session's.
SessionHeader_CallerFirst(input_header, sid) ==
    IF input_header # EmptyId THEN input_header ELSE sid

\* {**input_header, **session_header}: the 'workbook-session-id' sent.
SessionHeader(input_header, sid) == sid

\* session_request(): the request goes on the wire, carrying the session
\* header when the client is a WorkbookClient.
session_request ==
    /\ rq.pc \in {"send", "resend"}
    /\ LET e == [Ev(rq.kind, rq.lo, rq.hi, 0, rq.size) EXCEPT !.ul = rq.ul, !.br = rq.br]
       IN  /\ net' = Append(net, Wire(e, IF IsWorkbook
                                          THEN SessionHeader(rq.input_header, session_id)
                                          ELSE rq.input_header))
           /\ log' = Append(log, e)
    /\ rq' = [rq EXCEPT !.pc = IF rq.pc = "send" THEN "await" ELSE "retry_await"]
    /\ UNCHANGED <<op, pc, outcome, result, up, rw, constructed, session_id, closed, xl, mail>>

\* The refreshes of the operation so far.
RefreshesSoFar == Len(SelectSeq(log, LAMBDA e : e.kind = "createSession"))

\* The first response: WorkbookClient._custom_request refreshes on the
\* invalid-session error; otherwise _request settles the call.
request_recv ==
    /\ rq.pc = "await"
    /\ \E res \in Responses :
        /\ (IsWorkbook /\ NeedsRefresh(res)) => RefreshesSoFar < MaxRefreshes
        /\ net' = Tail(net)
        /\ log' = Append(log, Resp(0, ~(IsWorkbook /\ NeedsRefresh(res))
                                       /\ ~Raises(rq.ignore_timeout, res)))
        /\ IF IsWorkbook /\ NeedsRefresh(res)
           THEN rq' = [rq EXCEPT !.pc = "refresh", !.first = res]
           ELSE rq' = [rq EXCEPT !.pc = "done", !.first = res,
                                 !.out = Outcome(rq.ignore_timeout, res)]
    /\ UNCHANGED <<op, pc, outcome, result, up, rw, constructed, session_id, closed, xl, mail>>

\* Mutant: _request judges the first response, not the reissue's.
retry_recv_first ==
    /\ rq.pc = "retry_await"
    /\ \E res \in Responses :
        /\ net' = Tail(net)
        /\ log' = Append(log, Resp(0, ~Raises(rq.ignore_timeout, rq.first)))
        /\ rq' = [rq EXCEPT !.pc = "done", !.second = res,
                            !.out = Outcome(rq.ignore_timeout, rq.first)]
    /\ UNCHANGED <<op, pc, outcome, result, up, rw, constructed, session_id, closed, xl, mail>>

\* Mutant: the reissue is tested again, so a second expiry refreshes again.
retry_recv_loop ==
    /\ rq.pc = "retry_await"
    /\ \E res \in Responses :
        /\ net' = Tail(net)
        /\ log' = Append(log, Resp(0, ~NeedsRefresh(res) /\ ~Raises(rq.ignore_timeout, res)))
        /\ IF NeedsRefresh(res)
           THEN rq' = [rq EXCEPT !.pc = "refresh", !.second = res]
           ELSE rq' = [rq EXCEPT !.pc = "done", !.second = res,
                                 !.out = Outcome(rq.ignore_timeout, res)]
    /\ UNCHANGED <<op, pc, outcome, result, up, rw, constructed, session_id, closed, xl, mail>>

\* The response to the reissued request: no further test, _request settles it.
retry_recv ==
    /\ rq.pc = "retry_await"
    /\ \E res \in Responses :
        /\ net' = Tail(net)
        /\ log' = Append(log, Resp(0, ~Raises(rq.ignore_timeout, res)))
        /\ rq' = [rq EXCEPT !.pc = "done", !.second = res,
                            !.out = Outcome(rq.ignore_timeout, res)]
    /\ UNCHANGED <<op, pc, outcome, result, up, rw, constructed, session_id, closed, xl, mail>>

(* ------------- a single get/post/put/patch/delete call ----------------- *)
request_start ==
    /\ op = "idle"
    /\ constructed
    /\ \E method \in Methods, ignore_timeout \in BOOLEAN, input_header \in CallerHeaders :
        rq' = [Call(method, "request", 0, 0, 0, ignore_timeout)
                  EXCEPT !.input_header = input_header]
    /\ op' = "request"
    /\ pc' = "call"
    /\ UNCHANGED <<outcome, result, up, rw, constructed, session_id, net, log, closed, xl, mail>>

request_return ==
    /\ op = "request"
    /\ pc = "call"
    /\ rq.pc = "done"
    /\ pc' = "done"
    /\ outcome' = rq.out
    /\ result' = IF rq.out = "returned" THEN Returned(TRUE) ELSE "none"
    /\ UNCHANGED <<op, up, rw, constructed, session_id, rq, net, log, closed, xl, mail>>

(* -------------------- WorkbookClient._close_session -------------------- *)
\* if self.session_id: self.post('/closeSession', ...): the post is an
\* ordinary call of the client, through _request and _custom_request.
close_start ==
    /\ op = "idle"
    /\ constructed
    /\ op' = "close"
    /\ closed' = (closed \/ session_id \in Handles)
    /\ IF session_id \in Handles
       THEN /\ pc' = "call"
            /\ rq' = Call("post", "closeSession", 0, 0, 0, FALSE)
            /\ UNCHANGED <<outcome, result>>
       ELSE /\ pc' = "done" /\ outcome' = "returned" /\ result' = "None"
            /\ UNCHANGED rq
    /\ UNCHANGED <<up, rw, constructed, session_id, net, log, xl, mail>>

\* The post's value is dropped; what it raises is not caught.
close_return ==
    /\ op = "close"
    /\ pc = "call"
    /\ rq.pc = "done"
    /\ pc' = "done"
    /\ outcome' = rq.out
    /\ result' = IF rq.out = "returned" THEN "None" ELSE "none"
    /\ UNCHANGED <<op, up, rw, constructed, session_id, rq, net, log, closed, xl, mail>>

(* --------------------------- chunked uploads --------------------------- *)
\* Payload sizes and chunk sizes of the uploads: small ones, the sizes around
\* the simple-upload limit, and the sizes of the documented example.
FileSizes == (0..MaxSmallBytes) \cup {UPLOAD_LIMIT - 1, UPLOAD_LIMIT, UPLOAD_LIMIT + 1,
                                      10000000, 2 * DEFAULT_CHUNK_SIZE}
ChunkSizes == (-1..MaxSmallBytes) \cup {327680 * 10, OUTLOOK_DEFAULT_CHUNK_SIZE, DEFAULT_CHUNK_SIZE}
Planned(file_size, chunk_size) == chunk_size <= 0 \/ file_size <= chunk_size * MaxChunks
\* Statuses the upload URL answers a chunk with.
ChunkStatuses == {200, 201, 202, 204, 404}

\* ff.read(chunk_size): everything that is left for a negative size.
Read(chunk_size, remaining) ==
    IF chunk_size < 0 THEN remaining
    ELSE IF chunk_size < remaining THEN chunk_size ELSE remaining

\* Mutant: the header is compiled after current_bytes has been advanced.
ContentRange_AfterAdvance(current_bytes, transfer_bytes, file_size) ==
    [first |-> current_bytes + transfer_bytes,
     last |-> current_bytes + transfer_bytes + transfer_bytes - 1, total |-> file_size]

\* 'bytes {current_bytes}-{current_bytes + transfer_bytes - 1}/{file_size}'
ContentRange(current_bytes, transfer_bytes, file_size) ==
    [first |-> current_bytes, last |-> current_bytes + transfer_bytes - 1, total |-> file_size]

\* Mutant: the simple upload is taken only strictly below the limit.
SimpleUpload_Below(file_size) == file_size < UPLOAD_LIMIT

\* drive.py: the test that chooses the simple upload
SimpleUpload(file_size) == file_size <= UPLOAD_LIMIT

\* The test after raise_for_status that ends the chunk loop with a return.
ChunkDone(o, status) ==
    IF o = "upload_file" THEN status # 202 ELSE status \notin {200, 201, 202}

\* Mutant: an error status does not stop the loop.
ChunkRaises_Never(status) == FALSE

\* res.raise_for_status() on a chunk's response
ChunkRaises(status) == status >= 400 /\ status < 600

\* What the operation hands back when its chunk loop returns res.json():
\* upload_file drops chunk_upload's value.
UploadResult(o) == IF o = "upload_file" THEN "None" ELSE "json"

\* The DriveClient and the OutlookClient are objects of their own: their
\* operations read and write nothing of a WorkbookClient, and are followed
\* from the states in which none has been constructed.
OtherClientIdle == op = "idle" /\ ~constructed

(* DriveClient.upload_file *)
upload_file_start ==
    /\ OtherClientIdle
    /\ \E file_size \in FileSizes, chunk_size \in ChunkSizes, names \in 0..MaxDepth :
        /\ Planned(file_size, chunk_size)
        /\ up' = [NoUp EXCEPT !.file_size = file_size, !.chunk_size = chunk_size, !.names = names]
    /\ op' = "upload_file"
    /\ pc' = "folder_root"
    /\ rq' = Call("get", "drive_root", 0, 0, 0, FALSE)
    /\ UNCHANGED <<outcome, result, rw, constructed, session_id, net, log, closed, xl, mail>>

(* DriveClient.get_folder *)
\* self.get(drive_root) has answered.
get_folder_root ==
    /\ op = "upload_file" /\ pc = "folder_root" /\ rq.pc = "done"
    /\ IF rq.out = "raised"
       THEN /\ pc' = "done" /\ outcome' = "raised" /\ UNCHANGED rq
       ELSE IF up.names > 0
            THEN /\ pc' = "folder_get" /\ rq' = Call("get", "folder", 0, 0, 0, FALSE)
                 /\ UNCHANGED outcome
            ELSE /\ pc' = "branch" /\ rq' = NoRq /\ UNCHANGED outcome
    /\ UNCHANGED <<op, result, up, rw, constructed, session_id, net, log, closed, xl, mail>>

\* The Get of one folder name has answered: any failure goes on to create it.
get_folder_get ==
    /\ op = "upload_file" /\ pc = "folder_get" /\ rq.pc = "done"
    /\ IF rq.out = "raised"
       THEN /\ pc' = "folder_post" /\ rq' = Call("post", "children", 0, 0, 0, FALSE)
            /\ UNCHANGED up
       ELSE /\ up' = [up EXCEPT !.names = @ - 1]
            /\ IF up.names > 1
               THEN pc' = "folder_get" /\ rq' = Call("get", "folder", 0, 0, 0, FALSE)
               ELSE pc' = "branch" /\ rq' = NoRq
    /\ UNCHANGED <<op, outcome, result, rw, constructed, session_id, net, log, closed, xl, mail>>

\* The creation of the folder has answered.
get_folder_post ==
    /\ op = "upload_file" /\ pc = "folder_post" /\ rq.pc = "done"
    /\ IF rq.out = "raised"
       THEN /\ pc' = "done" /\ outcome' = "raised" /\ UNCHANGED <<rq, up>>
       ELSE /\ up' = [up EXCEPT !.names = @ - 1]
            /\ UNCHANGED outcome
            /\ IF up.names > 1
               THEN pc' = "folder_get" /\ rq' = Call("get", "folder", 0, 0, 0, FALSE)
               ELSE pc' = "branch" /\ rq' = NoRq
    /\ UNCHANGED <<op, result, rw, constructed, session_id, net, log, closed, xl, mail>>

\* if file_size <= UPLOAD_LIMIT: self.put(simple_url, data) else createUploadSession
upload_file_branch ==
    /\ op = "upload_file" /\ pc = "branch"
    /\ IF SimpleUpload(up.file_size)
       THEN /\ pc' = "simple"
            /\ rq' = Call("put", "content", 0, up.file_size - 1, up.file_size, FALSE)
       ELSE /\ pc' = "create_upload"
            /\ rq' = Call("post", "createUploadSession", 0, 0, 0, FALSE)
    /\ UNCHANGED <<op, outcome, result, up, rw, constructed, session_id, net, log, closed, xl, mail>>

\* return self.put(...)
simple_return ==
    /\ op = "upload_file" /\ pc = "simple" /\ rq.pc = "done"
    /\ pc' = "done"
    /\ outcome' = rq.out
    /\ result' = IF rq.out = "returned" THEN Returned(TRUE) ELSE "none"
    /\ UNCHANGED <<op, up, rw, constructed, session_id, rq, net, log, closed, xl, mail>>

(* OutlookClient.upload_attachment *)
upload_attachment_start ==
    /\ OtherClientIdle
    /\ \E file_size \in FileSizes, chunk_size \in ChunkSizes :
        /\ Planned(file_size, chunk_size)
        /\ up' = [NoUp EXCEPT !.file_size = file_size, !.chunk_size = chunk_size]
    /\ op' = "upload_attachment"
    /\ pc' = "create_upload"
    /\ rq' = Call("post", "createUploadSession", 0, 0, 0, FALSE)
    /\ UNCHANGED <<outcome, result, rw, constructed, session_id, net, log, closed, xl, mail>>

(* both uploaders *)
\* session_url = self.post(... createUploadSession ...).get('uploadUrl'): a
\* raw Response has no get; a JSON body may hold no uploadUrl (None).
create_upload_return ==
    /\ op \in {"upload_file", "upload_attachment"} /\ pc = "create_upload" /\ rq.pc = "done"
    /\ IF rq.out = "raised" \/ Returned(TRUE) = "response"
       THEN /\ pc' = "done" /\ outcome' = "raised" /\ UNCHANGED up
       ELSE /\ pc' = "read" /\ UNCHANGED outcome
            /\ \E has_url \in BOOLEAN : up' = [up EXCEPT !.session_url = has_url]
    /\ UNCHANGED <<op, result, rw, constructed, session_id, rq, net, log, closed, xl, mail>>

\* chunk = ff.read(chunk_size); if not chunk: break.  The function ends
\* without a return statement.
chunk_exhausted ==
    /\ op \in {"upload_file", "upload_attachment"} /\ pc = "read"
    /\ Read(up.chunk_size, up.file_size - up.pos) = 0
    /\ up' = [up EXCEPT !.eof = TRUE]
    /\ pc' = "done"
    /\ outcome' = "returned"
    /\ result' = "None"
    /\ UNCHANGED <<op, rw, constructed, session_id, rq, net, log, closed, xl, mail>>

\* Mutant: the put does not wait for its response before the next read.
chunk_put_async ==
    /\ op \in {"upload_file", "upload_attachment"} /\ pc = "read"
    /\ LET n == Read(up.chunk_size, up.file_size - up.pos)
           h == ContentRange(up.current_bytes, n, up.file_size)
       IN  /\ n > 0
           /\ up' = [up EXCEPT !.transfer_bytes = n, !.current_bytes = @ + n, !.pos = @ + n]
           /\ net' = Append(net, Wire(Ev("chunk", h.first, h.last, h.total, n), EmptyId))
           /\ log' = Append(log, Ev("chunk", h.first, h.last, h.total, n))
           /\ pc' = "read"
           /\ UNCHANGED outcome
    /\ UNCHANGED <<op, result, rw, constructed, session_id, rq, closed, xl, mail>>

\* A chunk was read: the header is compiled, current_bytes advanced and the
\* chunk put to the upload URL (requests.put raises on a missing URL).
chunk_put ==
    /\ op \in {"upload_file", "upload_attachment"} /\ pc = "read"
    /\ LET n == Read(up.chunk_size, up.file_size - up.pos)
           h == ContentRange(up.current_bytes, n, up.file_size)
       IN  /\ n > 0
           /\ up' = [up EXCEPT !.transfer_bytes = n, !.current_bytes = @ + n, !.pos = @ + n]
           /\ IF up.session_url
              THEN /\ net' = Append(net, Wire(Ev("chunk", h.first, h.last, h.total, n), EmptyId))
                   /\ log' = Append(log, Ev("chunk", h.first, h.last, h.total, n))
                   /\ pc' = "chunk_await"
                   /\ UNCHANGED outcome
              ELSE /\ pc' = "done"
                   /\ outcome' = "raised"
                   /\ UNCHANGED <<net, log>>
    /\ UNCHANGED <<op, result, rw, constructed, session_id, rq, closed, xl, mail>>

\* Error codes in the body of an answer to a chunk put: none, or the
\* invalid-session signal (in an error answer).
ChunkCodes == {"", "InvalidSession"}

\* Mutant: a chunk answered with the invalid-session signal is put again.
chunk_recv_reissue ==
    /\ op \in {"upload_file", "upload_attachment"} /\ pc = "chunk_await"
    /\ \E status \in ChunkStatuses, code \in ChunkCodes :
        /\ code # "" => status >= 400
        /\ net' = Tail(net)
        /\ log' = Append(log, [Resp(status, ~ChunkRaises(status)) EXCEPT !.code = code])
        /\ IF code = "InvalidSession"
           THEN /\ pc' = "read"
                /\ up' = [up EXCEPT !.pos = @ - up.transfer_bytes,
                                    !.current_bytes = @ - up.transfer_bytes]
                /\ UNCHANGED <<outcome, result>>
           ELSE /\ UNCHANGED up
                /\ IF ChunkRaises(status)
                   THEN pc' = "done" /\ outcome' = "raised" /\ UNCHANGED result
                   ELSE IF ChunkDone(op, status)
                        THEN pc' = "done" /\ outcome' = "returned" /\ result' = UploadResult(op)
                        ELSE pc' = "read" /\ UNCHANGED <<outcome, result>>
    /\ UNCHANGED <<op, rw, constructed, session_id, rq, closed, xl, mail>>

\* The chunk's response: raise_for_status, then the test that ends the loop.
\* Nothing reads the body of an error answer.
chunk_recv ==
    /\ op \in {"upload_file", "upload_attachment"} /\ pc = "chunk_await"
    /\ \E status \in ChunkStatuses, code \in ChunkCodes :
        /\ code # "" => status >= 400
        /\ net' = Tail(net)
        /\ log' = Append(log, [Resp(status, ~ChunkRaises(status)) EXCEPT !.code = code])
        /\ IF ChunkRaises(status)
           THEN pc' = "done" /\ outcome' = "raised" /\ UNCHANGED result
           ELSE IF ChunkDone(op, status)
                THEN pc' = "done" /\ outcome' = "returned" /\ result' = UploadResult(op)
                ELSE pc' = "read" /\ UNCHANGED <<outcome, result>>
    /\ UNCHANGED <<op, up, rw, constructed, session_id, rq, closed, xl, mail>>

(* ------------------------- misc.py: addresses -------------------------- *)
\* A Python str is the sequence of its characters.
Upper == << "A", "B", "C", "D", "E", "F", "G", "H", "I", "J", "K", "L", "M",
            "N", "O", "P", "Q", "R", "S", "T", "U", "V", "W", "X", "Y", "Z" >>
Lower == << "a", "b", "c", "d", "e", "f", "g", "h", "i", "j", "k", "l", "m",
            "n", "o", "p", "q", "r", "s", "t", "u", "v", "w", "x", "y", "z" >>
Digit == << "0", "1", "2", "3", "4", "5", "6", "7", "8", "9" >>

\* The character classes [A-Z] and [0-9]
UpperLetters == { Upper[i] : i \in 1..26 }
Digits == { Digit[i] : i \in 1..10 }
\* c in the character class [A-Z], [0-9]; c in string.ascii_letters
IsUpper(c) == c \in UpperLetters
IsDigit(c) == c \in Digits
\* string.ascii_letters
Letters == UpperLetters \cup { Lower[i] : i \in 1..26 }
IsLetter(c) == c \in Letters
\* ord(c.upper()) - ord('A') + 1
LetterIndexOf == [c \in Letters |-> CHOOSE i \in 1..26 : Upper[i] = c \/ Lower[i] = c]
LetterIndex(c) == LetterIndexOf[c]
DigitValueOf == [c \in Digits |-> (CHOOSE i \in 1..10 : Digit[i] = c) - 1]
DigitValue(c) == DigitValueOf[c]

\* for c in col: if c in string.ascii_letters: num = num * 26 + ord + 1
RECURSIVE Col2NumLoop(_, _, _)
Col2NumLoop(col, k, num) ==
    IF k > Len(col) THEN num
    ELSE Col2NumLoop(col, k + 1,
                     IF IsLetter(col[k]) THEN num * 26 + (LetterIndex(col[k]) - 1) + 1 ELSE num)
xl_col2num(col) == Col2NumLoop(col, 1, 0)

\* Mutant: plain base 26, the remainder taken of num and not of num - 1.
RECURSIVE Num2ColLoop_ZeroDigit(_, _)
Num2ColLoop_ZeroDigit(num, s) ==
    IF num > 0
    THEN Num2ColLoop_ZeroDigit(num \div 26, <<Upper[(num % 26) + 1]>> \o s)
    ELSE s

\* while num > 0: num, rem = divmod(num - 1, 26); s = chr(65 + rem) + s
RECURSIVE Num2ColLoop(_, _)
Num2ColLoop(num, s) ==
    IF num > 0
    THEN Num2ColLoop((num - 1) \div 26, <<Upper[((num - 1) % 26) + 1]>> \o s)
    ELSE s
xl_num2col(num) == Num2ColLoop(num, <<>>)

xl_add2col(start, addition) == xl_num2col(xl_col2num(start) + addition)

\* str(n) and int(s) of a digit string
RECURSIVE NatToStr(_)
NatToStr(n) == IF n < 10 THEN <<Digit[n + 1]>> ELSE NatToStr(n \div 10) \o <<Digit[(n % 10) + 1]>>
IntToStr(n) == IF n < 0 THEN <<"-">> \o NatToStr(-n) ELSE NatToStr(n)
RECURSIVE StrToNat(_, _, _)
StrToNat(s, k, n) == IF k > Len(s) THEN n ELSE StrToNat(s, k + 1, n * 10 + DigitValue(s[k]))

\* re.findall(cls + '+', s)[0]: the first maximal run of characters of the
\* class; [0] raises IndexError when there is none.
RECURSIVE FirstIn(_, _, _)
FirstIn(s, k, cls) ==
    IF k > Len(s) \/ s[k] \in cls THEN k ELSE FirstIn(s, k + 1, cls)
RECURSIVE LastIn(_, _, _)
LastIn(s, k, cls) ==
    IF k < Len(s) /\ s[k + 1] \in cls THEN LastIn(s, k + 1, cls) ELSE k
HasRun(s, cls) == FirstIn(s, 1, cls) <= Len(s)
RunStart(s, cls) == FirstIn(s, 1, cls)
RunEnd(s, cls) == LastIn(s, RunStart(s, cls), cls)
FirstRun(s, cls) == SubSeq(s, RunStart(s, cls), RunEnd(s, cls))

\* col = re.findall('[A-Z]+', address)[0]; row = int(re.findall('[0-9]+', address)[0])
xl_parse_cell_address(address) ==
    IF HasRun(address, UpperLetters) /\ HasRun(address, Digits)
    THEN Value([col |-> FirstRun(address, UpperLetters),
                row |-> StrToNat(FirstRun(address, Digits), 1, 0)])
    ELSE Raised

\* Mutant: the column shift is not applied.
xl_shift_cell_RowOnly(address, row_shift, col_shift) ==
    LET p == xl_parse_cell_address(address)
    IN  IF ~p.ok THEN Raised
        ELSE Value(p.value.col \o IntToStr(p.value.row + row_shift))

\* f'{new_col}{new_row}' of the parsed address: nothing checks the result.
xl_shift_cell(address, row_shift, col_shift) ==
    LET p == xl_parse_cell_address(address)
    IN  IF ~p.ok THEN Raised
        ELSE Value(xl_add2col(p.value.col, col_shift) \o IntToStr(p.value.row + row_shift))

(* ------------------- excel.py: column-wise writing -------------------- *)
\* chr(ord(c) + 1) of a digit or a letter: the character after '9' is ':',
\* after 'Z' is '[' and after 'z' is '{'.
NextChar(c) ==
    IF c \in Digits THEN (Digit \o <<":">>)[DigitValue(c) + 2]
    ELSE IF c \in UpperLetters THEN (Upper \o <<"[">>)[LetterIndex(c) + 1]
    ELSE (Lower \o <<"{">>)[LetterIndex(c) + 1]
\* s[:-n] of a str
DropLast(s, n) == SubSeq(s, 1, Len(s) - n)

\* if not column: 'A'; if column[-1] == 'Z': increment_column(column[:-2]) + 'A';
\* else column[:-1] + chr(ord(column[-1]) + 1)
RECURSIVE increment_column(_)
increment_column(column) ==
    IF column = <<>> THEN <<"A">>
    ELSE IF column[Len(column)] = "Z"
         THEN increment_column(DropLast(column, 2)) \o <<"A">>
         ELSE DropLast(column, 1) \o <<NextChar(column[Len(column)])>>

\* location = self.increment_column(location[:-1]) + location[-1]
NextLocation(location) ==
    increment_column(DropLast(location, 1)) \o <<location[Len(location)]>>

(* ----------------------- row-chunked transfers ------------------------ *)
\* Cell budgets (chunk_size) tried, and where a planned loop stays in bounds.
CellBudgets == -1..MaxCells
PlannedRows(rows, n) == n <= 0 \/ rows <= n * MaxChunks

\* Top-left cell tried beside the documented read's A1: its column and its
\* row both gain a character when shifted.
TopLefts == { <<"Z", "9">> }
\* The documented read: 12 rows of 40 columns under a budget of 250 cells.
ExampleRead == [rows |-> 12, cols |-> 40, chunk_size |-> 250, address |-> <<"A", "1">>]
\* The address of a used range, after address.split('!')[-1].
UsedAddress(tl, rows, cols) == tl \o <<":">> \o xl_shift_cell(tl, rows - 1, cols - 1).value
\* The sheet rows a range address names, one returned or written per row.
RowsOf(ul, br) ==
    LET first == xl_parse_cell_address(ul).value.row
        last == xl_parse_cell_address(br).value.row
    IN  [k \in 1..(last - first + 1) |-> first + k - 1]

\* row_chunk_size = chunk_size // cols
RowChunkSize(chunk_size, cols) == chunk_size \div cols

\* range(0, rows, n) still yields i (n = 0 raises before this is asked)
InRange(i, rows, n) == n > 0 /\ i < rows

\* Mutant: the last row offset of a read chunk is not cut at the last row.
ReadLast_Uncut(i, n, rows) == i + n - 1

\* min(i + row_chunk_size - 1, rows - 1): last row offset of a read chunk
ReadLast(i, n, rows) == IF i + n - 1 < rows - 1 THEN i + n - 1 ELSE rows - 1

\* len(lst[i:i + n])
SliceLen(i, n, rows) == IF i + n < rows THEN n ELSE rows - i

\* Mutant: the last row offset of a written chunk takes the full chunk size.
WriteLast_Full(i, n, rows) == i + n - 1

\* i + min(row_chunk_size, len(chunk)) - 1: last row offset of a written chunk
WriteLast(i, n, rows) ==
    i + (IF n < SliceLen(i, n, rows) THEN n ELSE SliceLen(i, n, rows)) - 1

\* Mutant: the loop moves on by one row too many.
NextOffset_Skip(i, n) == i + n + 1

\* the step of range(0, rows, n)
NextOffset(i, n) == i + n

\* No code reads whether the session was closed: the loops, sequences of
\* single calls, are followed on a client not yet closed, and a closed
\* client is followed through its single calls.
LoopClientIdle == op = "idle" /\ constructed /\ ~closed

(* WorkbookClient.get_range_data *)
get_range_data_start ==
    /\ LoopClientIdle
    /\ \E chunk_size \in CellBudgets \cup {ExampleRead.chunk_size} :
        rw' = [NoRw EXCEPT !.chunk_size = chunk_size]
    /\ op' = "get_range_data"
    /\ pc' = "used_range"
    /\ rq' = Call("get", "usedRange", 0, 0, 0, FALSE)
    /\ UNCHANGED <<outcome, result, up, constructed, session_id, net, log, closed, xl, mail>>

\* get_used_range_info has answered with rowCount and columnCount; the row
\* chunk size is computed and the loop entered (range() rejects a step of 0).
used_range_return ==
    /\ op = "get_range_data" /\ pc = "used_range" /\ rq.pc = "done"
    /\ IF rq.out = "raised" \/ Returned(TRUE) = "response"
       THEN /\ pc' = "done" /\ outcome' = "raised" /\ UNCHANGED rw
       ELSE \E rows \in (1..MaxRows) \cup {ExampleRead.rows},
               cols \in (1..MaxCols) \cup {ExampleRead.cols},
               tl \in TopLefts \cup {ExampleRead.address} :
            LET n == RowChunkSize(rw.chunk_size, cols)
                example == [rows |-> rows, cols |-> cols, chunk_size |-> rw.chunk_size,
                            address |-> tl] = ExampleRead
            IN  /\ example \/ (rows <= MaxRows /\ cols <= MaxCols /\ rw.chunk_size <= MaxCells
                                /\ tl \in TopLefts)
                /\ PlannedRows(rows, n)
                /\ rw' = [rw EXCEPT !.rows = rows, !.cols = cols, !.row_chunk_size = n,
                                    !.address = UsedAddress(tl, rows, cols)]
                /\ IF n = 0
                   THEN pc' = "done" /\ outcome' = "raised"
                   ELSE pc' = "loop" /\ UNCHANGED outcome
    /\ rq' = NoRq
    /\ UNCHANGED <<op, result, up, constructed, session_id, net, log, closed, xl, mail>>

\* One turn of the loop: the next chunk is requested, or the rows are returned.
read_loop ==
    /\ op = "get_range_data" /\ pc = "loop"
    /\ IF InRange(rw.i, rw.rows, rw.row_chunk_size)
       THEN LET last == ReadLast(rw.i, rw.row_chunk_size, rw.rows)
                ul == xl_shift_cell(rw.address, rw.i, 0)
                br == xl_shift_cell(rw.address, last, rw.cols - 1)
            IN  IF ul.ok /\ br.ok
                THEN /\ pc' = "chunk_call"
                     /\ rq' = [Call("get", "range", rw.i, last, 0, FALSE)
                                   EXCEPT !.ul = ul.value, !.br = br.value]
                     /\ UNCHANGED <<outcome, result>>
                ELSE /\ pc' = "done" /\ outcome' = "raised"
                     /\ UNCHANGED <<rq, result>>
       ELSE \* as_df: pandas.read_csv raises on an empty text
            \E as_df \in BOOLEAN :
                /\ pc' = "done"
                /\ IF as_df /\ rw.data = <<>>
                   THEN outcome' = "raised" /\ UNCHANGED result
                   ELSE outcome' = "returned" /\ result' = "rows"
                /\ UNCHANGED rq
    /\ UNCHANGED <<op, up, rw, constructed, session_id, net, log, closed, xl, mail>>

\* data += self.get(...).get('text'): the rows the chunk addressed.
read_return ==
    /\ op = "get_range_data" /\ pc = "chunk_call" /\ rq.pc = "done"
    /\ IF rq.out = "raised" \/ Returned(TRUE) = "response"
       THEN /\ pc' = "done" /\ outcome' = "raised" /\ UNCHANGED rw
       ELSE /\ pc' = "loop" /\ UNCHANGED outcome
            /\ rw' = [rw EXCEPT !.data = @ \o RowsOf(rq.ul, rq.br),
                                !.i = NextOffset(rw.i, rw.row_chunk_size)]
    /\ rq' = NoRq
    /\ UNCHANGED <<op, result, up, constructed, session_id, net, log, closed, xl, mail>>

(* WorkbookClient.write_data *)
\* create_sheet comes first: the sheet list is fetched.
write_data_start ==
    /\ LoopClientIdle
    /\ \E df_rows \in 0..MaxRows, cols \in 0..MaxCols, chunk_size \in CellBudgets,
          include_header \in BOOLEAN, ignore_timeout \in BOOLEAN, location \in TopLefts :
        LET rows == df_rows + (IF include_header THEN 1 ELSE 0)
        IN  /\ rows <= MaxRows
            /\ cols > 0 => PlannedRows(rows, RowChunkSize(chunk_size, cols))
            /\ rw' = [NoRw EXCEPT !.rows = rows, !.cols = cols, !.chunk_size = chunk_size,
                                  !.address = location, !.ignore_timeout = ignore_timeout]
    /\ op' = "write_data"
    /\ pc' = "sheet_list"
    /\ rq' = Call("get", "worksheets", 0, 0, 0, FALSE)
    /\ UNCHANGED <<outcome, result, up, constructed, session_id, net, log, closed, xl, mail>>

\* The division by the column count and the entry of the loop.
EnterWriteLoop ==
    IF rw.cols = 0 \/ RowChunkSize(rw.chunk_size, rw.cols) = 0
    THEN /\ pc' = "done" /\ outcome' = "raised" /\ UNCHANGED rw
    ELSE /\ pc' = "loop" /\ UNCHANGED outcome
         /\ rw' = [rw EXCEPT !.row_chunk_size = RowChunkSize(rw.chunk_size, rw.cols)]

\* get_sheet_list has answered: the sheet is created when its name is missing.
sheet_list_return ==
    /\ op = "write_data" /\ pc = "sheet_list" /\ rq.pc = "done"
    /\ IF rq.out = "raised" \/ Returned(TRUE) = "response"
       THEN /\ pc' = "done" /\ outcome' = "raised" /\ rq' = NoRq /\ UNCHANGED rw
       ELSE \E listed \in BOOLEAN :
            IF listed
            THEN rq' = NoRq /\ EnterWriteLoop
            ELSE /\ pc' = "sheet_add" /\ rq' = Call("post", "addSheet", 0, 0, 0, FALSE)
                 /\ UNCHANGED <<outcome, rw>>
    /\ UNCHANGED <<op, result, up, constructed, session_id, net, log, closed, xl, mail>>

sheet_add_return ==
    /\ op = "write_data" /\ pc = "sheet_add" /\ rq.pc = "done"
    /\ IF rq.out = "raised"
       THEN /\ pc' = "done" /\ outcome' = "raised" /\ UNCHANGED rw
       ELSE EnterWriteLoop
    /\ rq' = NoRq
    /\ UNCHANGED <<op, result, up, constructed, session_id, net, log, closed, xl, mail>>

\* One turn of the loop over get_chunk: the next chunk is patched, or the
\* method ends.
write_loop ==
    /\ op = "write_data" /\ pc = "loop"
    /\ IF InRange(rw.i, rw.rows, rw.row_chunk_size)
       THEN \E last \in {WriteLast(rw.i, rw.row_chunk_size, rw.rows)},
               chunk_start \in {xl_shift_cell(rw.address, rw.i, 0)} :
            \E chunk_end \in {IF chunk_start.ok
                              THEN xl_shift_cell(chunk_start.value, last - rw.i, rw.cols - 1)
                              ELSE Raised} :
                IF chunk_start.ok /\ chunk_end.ok
                THEN /\ pc' = "chunk_call"
                     /\ rq' = [Call("patch", "range", rw.i, last,
                                    SliceLen(rw.i, rw.row_chunk_size, rw.rows), rw.ignore_timeout)
                                   EXCEPT !.ul = chunk_start.value, !.br = chunk_end.value]
                     /\ UNCHANGED <<outcome, result>>
                ELSE /\ pc' = "done" /\ outcome' = "raised"
                     /\ UNCHANGED <<rq, result>>
       ELSE /\ pc' = "done" /\ outcome' = "returned" /\ result' = "None"
            /\ UNCHANGED rq
    /\ UNCHANGED <<op, up, rw, constructed, session_id, net, log, closed, xl, mail>>

\* self.patch(...) has returned or raised; its value is not used.
write_return ==
    /\ op = "write_data" /\ pc = "chunk_call" /\ rq.pc = "done"
    /\ IF rq.out = "raised"
       THEN /\ pc' = "done" /\ outcome' = "raised" /\ UNCHANGED rw
       ELSE /\ pc' = "loop" /\ UNCHANGED outcome
            /\ rw' = [rw EXCEPT !.data = @ \o RowsOf(rq.ul, rq.br),
                                !.i = NextOffset(rw.i, rw.row_chunk_size)]
    /\ rq' = NoRq
    /\ UNCHANGED <<op, result, up, constructed, session_id, net, log, closed, xl, mail>>

(* ----------------------- OutlookClient.send_mail ------------------------ *)
\* Sizes of the attachment files tried: a small one and the sizes at the
\* inline limit.
AttachmentSizes == {1, OUTLOOK_UPLOAD_LIMIT - 1, OUTLOOK_UPLOAD_LIMIT}
\* attachments: the sizes of the files of the list, in the order given (None
\* and the empty list alike give no attachment).  The paths of a list are
\* distinct, an attachment being named by its place in the list.
AttachmentLists == UNION { [1..n -> AttachmentSizes] : n \in 0..MaxAttachments }

\* sorted(size_dict.items(), key=lambda item: item[1]): by size, attachments
\* of equal size in the order given.
RECURSIVE InsertBySize(_, _, _)
InsertBySize(order, a, sizes) ==
    IF order = <<>> THEN <<a>>
    ELSE IF sizes[a] < sizes[Head(order)] THEN <<a>> \o order
         ELSE <<Head(order)>> \o InsertBySize(Tail(order), a, sizes)
RECURSIVE SortedBySize(_, _)
SortedBySize(sizes, n) ==
    IF n = 0 THEN <<>> ELSE InsertBySize(SortedBySize(sizes, n - 1), n, sizes)

\* Mutant: an attachment that brings the total to the limit is still inline.
FitsInline_AtLimit(attachments_size, size) == attachments_size + size <= OUTLOOK_UPLOAD_LIMIT

\* if attachments_size + size_dict[i] < UPLOAD_LIMIT
FitsInline(attachments_size, size) == attachments_size + size < OUTLOOK_UPLOAD_LIMIT

\* for i in size_dict.keys(): the attachment joins draft_attachments and
\* adds to attachments_size, or joins large_attachments.
RECURSIVE Classify(_, _, _, _)
Classify(order, sizes, k, acc) ==
    IF k > Len(order) THEN acc
    ELSE Classify(order, sizes, k + 1,
                  IF FitsInline(acc.attachments_size, sizes[order[k]])
                  THEN [acc EXCEPT !.attachments_size = @ + sizes[order[k]],
                                   !.draft_attachments = Append(@, order[k])]
                  ELSE [acc EXCEPT !.large_attachments = Append(@, order[k])])

\* The message is built and posted: to /me/sendMail when no attachment is
\* large, else to /me/messages as a draft.
send_mail_start ==
    /\ OtherClientIdle
    /\ \E sizes \in AttachmentLists :
        \E m \in {Classify(SortedBySize(sizes, Len(sizes)), sizes, 1,
                            [NoMail EXCEPT !.sizes = sizes])} :
            IF m.large_attachments = <<>>
            THEN /\ mail' = [m EXCEPT !.pc = "send"]
                 /\ rq' = Call("post", "sendMail", 0, 0, 0, FALSE)
            ELSE /\ mail' = [m EXCEPT !.pc = "draft"]
                 /\ rq' = Call("post", "draft", 0, 0, 0, FALSE)
    /\ op' = "send_mail"
    /\ pc' = "call"
    /\ UNCHANGED <<outcome, result, up, rw, constructed, session_id, net, log, closed, xl>>

\* msg_id = draft_msg.get('id'): a raw Response has no get; a JSON body may
\* hold no id (None).
draft_return ==
    /\ op = "send_mail" /\ pc = "call" /\ mail.pc = "draft" /\ rq.pc = "done"
    /\ IF rq.out = "raised" \/ Returned(TRUE) = "response"
       THEN /\ pc' = "done" /\ outcome' = "raised" /\ UNCHANGED mail
       ELSE /\ pc' = "loop" /\ UNCHANGED outcome
            /\ \E has_id \in BOOLEAN : mail' = [mail EXCEPT !.pc = "upload", !.msg_id = has_id]
    /\ UNCHANGED <<op, result, up, rw, constructed, session_id, rq, net, log, closed, xl>>

\* for i in large_attachments: self.upload_attachment(msg_id, i), with the
\* default chunk size ('/me/messages/' + None raises); after the loop the
\* draft is sent.  The requests so far are kept in mail.log while the
\* upload keeps its own.
send_mail_loop ==
    /\ op = "send_mail" /\ pc = "loop"
    /\ mail' = [mail EXCEPT !.log = @ \o log,
                            !.pc = IF mail.uploaded = Len(mail.large_attachments)
                                   THEN "send_draft"
                                   ELSE IF mail.msg_id THEN "uploading" ELSE "upload"]
    /\ log' = <<>>
    /\ IF mail.uploaded < Len(mail.large_attachments)
       THEN IF mail.msg_id
            THEN /\ op' = "upload_attachment"
                 /\ pc' = "create_upload"
                 /\ up' = [NoUp EXCEPT !.file_size = mail.sizes[mail.large_attachments[mail.uploaded + 1]],
                                       !.chunk_size = OUTLOOK_DEFAULT_CHUNK_SIZE]
                 /\ rq' = [Call("post", "createUploadSession", 0, 0, 0, FALSE) EXCEPT !.from = 0]
                 /\ UNCHANGED outcome
            ELSE /\ pc' = "done" /\ outcome' = "raised"
                 /\ UNCHANGED <<op, up, rq>>
       ELSE /\ pc' = "call"
            /\ rq' = [Call("post", "sendDraft", 0, 0, 0, FALSE) EXCEPT !.from = 0]
            /\ UNCHANGED <<op, up, outcome>>
    /\ UNCHANGED <<result, rw, constructed, session_id, net, closed, xl>>

\* upload_attachment has returned or raised into send_mail's loop; its
\* value is not used.
attachment_return ==
    /\ op = "upload_attachment" /\ pc = "done" /\ mail.pc = "uploading"
    /\ op' = "send_mail"
    /\ IF outcome = "raised"
       THEN /\ pc' = "done" /\ mail' = [mail EXCEPT !.pc = "upload"]
            /\ UNCHANGED outcome
       ELSE /\ pc' = "loop" /\ outcome' = "none"
            /\ mail' = [mail EXCEPT !.pc = "upload", !.uploaded = @ + 1]
    /\ result' = "none"
    /\ up' = NoUp
    /\ UNCHANGED <<rw, constructed, session_id, rq, net, log, closed, xl>>

\* The post to /me/sendMail, or the post that sends the draft, has returned
\* or raised; send_mail has no return statement.
send_mail_return ==
    /\ op = "send_mail" /\ pc = "call" /\ mail.pc \in {"send", "send_draft"} /\ rq.pc = "done"
    /\ pc' = "done"
    /\ outcome' = rq.out
    /\ result' = IF rq.out = "returned" THEN "None" ELSE "none"
    /\ UNCHANGED <<op, up, rw, constructed, session_id, rq, net, log, closed, xl, mail>>

(* ------------------------ back to the caller --------------------------- *)
\* The operation has returned or raised to the program that called it (an
\* upload_attachment called by send_mail goes back to send_mail instead).
finish ==
    /\ pc = "done"
    /\ mail.pc # "uploading"
    /\ op' = "idle"
    /\ pc' = "none"
    /\ outcome' = "none"
    /\ result' = "none"
    /\ up' = NoUp
    /\ rw' = NoRw
    /\ rq' = NoRq
    /\ net' = <<>>
    /\ log' = <<>>
    /\ mail' = NoMail
    /\ UNCHANGED <<constructed, session_id, closed, xl>>

Next ==
    \/ init_start
    \/ init_return
    \/ refresh_send
    \/ refresh_recv
    \/ session_request
    \/ request_recv
    \/ retry_recv
    \/ request_start
    \/ request_return
    \/ close_start
    \/ close_return
    \/ upload_file_start
    \/ get_folder_root
    \/ get_folder_get
    \/ get_folder_post
    \/ upload_file_branch
    \/ simple_return
    \/ upload_attachment_start
    \/ create_upload_return
    \/ chunk_exhausted
    \/ chunk_put
    \/ chunk_recv
    \/ get_range_data_start
    \/ used_range_return
    \/ read_loop
    \/ read_return
    \/ write_data_start
    \/ sheet_list_return
    \/ sheet_add_return
    \/ write_loop
    \/ write_return
    \/ send_mail_start
    \/ draft_return
    \/ send_mail_loop
    \/ attachment_return
    \/ send_mail_return
    \/ finish

Spec == Init /\ [][Next]_vars

\* The program runs on and every request on the wire is answered: some step
\* is taken whenever one can be.
SpecLive == Spec /\ WF_vars(Next)

(* ----------------------- calls of the misc.py helpers ------------------ *)
\* The helpers are pure functions of their arguments: a call is followed
\* on its own, from arguments drawn at the start, with no client at work.
ColumnNames ==
    (UNION { [1..k -> UpperLetters] : k \in 1..MaxLetters })
        \cup { <<"A", "A", "A">>, <<"X", "F", "D">>, <<"a", "b">>, <<"A", "1">> }
ColumnNumbers == 0..MaxColumn
Addresses ==
    { <<"A", "1">>, <<"B", "7">>, <<"Z", "9">>, <<"A", "A", "1", "0">>,
      <<"A", "Z", "9", "9">>, <<"Z", "Z", "1", "0", "0">> }
Shifts == (0 - MaxShift)..MaxShift
\* Strings handed to xl_parse_cell_address: cells, a range, and strings
\* that are no address.
ParsedStrings ==
    Addresses \cup
    { <<"B", "2", ":", "D", "4">>, <<"1", "A", "2">>, <<"7", "B">>, <<"a", "B", "7">>,
      <<"b", "7">>, <<"1", "2">>, <<"A", "B">>, <<>> }

Num2ColCall(num) ==
    [fn |-> "xl_num2col", pc |-> "call", num |-> num, col |-> <<>>, back |-> 0]
Col2NumCall(col) ==
    [fn |-> "xl_col2num", pc |-> "call", col |-> col, num |-> 0, back |-> <<>>]
ShiftCall(address, row_shift, col_shift) ==
    [fn |-> "xl_shift_cell", pc |-> "call", address |-> address,
     row_shift |-> row_shift, col_shift |-> col_shift, out |-> Raised,
     row_shift2 |-> 0, col_shift2 |-> 0, out2 |-> Raised]
ParseCall(address) ==
    [fn |-> "xl_parse_cell_address", pc |-> "call", address |-> address, out |-> Raised]
\* Start locations of loop_write: single-digit and longer rows, columns
\* before, at and after 'Z' and 'AZ'.
LoopLocations ==
    { <<"A", "1">>, <<"Y", "1">>, <<"Z", "9">>, <<"A", "1", "0">>, <<"A", "Y", "7">>,
      <<"A", "Z", "9">>, <<"Z", "Z", "3">>, <<"A", "A", "Z", "2">> }
LoopWriteCall(location, cols) ==
    [fn |-> "loop_write", pc |-> "loop", start |-> location, location |-> location,
     cols |-> cols, written |-> <<>>]
MiscCalls ==
    { Num2ColCall(num) : num \in ColumnNumbers }
        \cup { LoopWriteCall(a, n) : a \in LoopLocations, n \in 0..MaxDfCols }
        \cup { ParseCall(a) : a \in ParsedStrings }
        \cup { Col2NumCall(col) : col \in ColumnNames }
        \cup { ShiftCall(a, dr, dc) : a \in Addresses, dr \in Shifts, dc \in Shifts }

InitMisc ==
    /\ op = "idle"
    /\ pc = "none"
    /\ outcome = "none"
    /\ result = "none"
    /\ up = NoUp
    /\ rw = NoRw
    /\ constructed = FALSE
    /\ session_id = EmptyId
    /\ rq = NoRq
    /\ net = <<>>
    /\ log = <<>>
    /\ closed = FALSE
    /\ xl \in MiscCalls
    /\ mail = NoMail

\* xl_num2col(num): of the argument, or of the number xl_col2num gave.
xl_num2col_call ==
    /\ \/ /\ xl.fn = "xl_num2col" /\ xl.pc = "call"
          /\ xl' = [xl EXCEPT !.col = xl_num2col(xl.num), !.pc = "back"]
       \/ /\ xl.fn = "xl_col2num" /\ xl.pc = "back"
          /\ xl' = [xl EXCEPT !.back = xl_num2col(xl.num), !.pc = "done"]
    /\ UNCHANGED <<op, pc, outcome, result, up, rw, constructed, session_id, rq, net, log, closed, mail>>

\* xl_col2num(col): of the argument, or of the name xl_num2col gave.
xl_col2num_call ==
    /\ \/ /\ xl.fn = "xl_col2num" /\ xl.pc = "call"
          /\ xl' = [xl EXCEPT !.num = xl_col2num(xl.col), !.pc = "back"]
       \/ /\ xl.fn = "xl_num2col" /\ xl.pc = "back"
          /\ xl' = [xl EXCEPT !.back = xl_col2num(xl.col), !.pc = "done"]
    /\ UNCHANGED <<op, pc, outcome, result, up, rw, constructed, session_id, rq, net, log, closed, mail>>

\* xl_shift_cell(address, row_shift, col_shift)
xl_shift_cell_call ==
    /\ xl.fn = "xl_shift_cell" /\ xl.pc = "call"
    /\ xl' = [xl EXCEPT !.out = xl_shift_cell(xl.address, xl.row_shift, xl.col_shift),
                         !.pc = "shifted"]
    /\ UNCHANGED <<op, pc, outcome, result, up, rw, constructed, session_id, rq, net, log, closed, mail>>

\* xl_shift_cell of the address the first call returned
xl_shift_cell_again ==
    /\ xl.fn = "xl_shift_cell" /\ xl.pc = "shifted" /\ xl.out.ok
    /\ \E row_shift \in Shifts, col_shift \in Shifts :
           xl' = [xl EXCEPT !.row_shift2 = row_shift, !.col_shift2 = col_shift,
                            !.out2 = xl_shift_cell(xl.out.value, row_shift, col_shift),
                            !.pc = "done"]
    /\ UNCHANGED <<op, pc, outcome, result, up, rw, constructed, session_id, rq, net, log, closed, mail>>

\* xl_parse_cell_address(address)
xl_parse_cell_address_call ==
    /\ xl.fn = "xl_parse_cell_address" /\ xl.pc = "call"
    /\ xl' = [xl EXCEPT !.out = xl_parse_cell_address(xl.address), !.pc = "done"]
    /\ UNCHANGED <<op, pc, outcome, result, up, rw, constructed, session_id, rq, net, log, closed, mail>>

\* One turn of loop_write's loop over df.columns: write_data is handed the
\* current location, then the location moves on.
loop_write_column ==
    /\ xl.fn = "loop_write" /\ xl.pc = "loop"
    /\ IF Len(xl.written) < xl.cols
       THEN xl' = [xl EXCEPT !.written = Append(@, xl.location),
                            !.location = NextLocation(xl.location)]
       ELSE xl' = [xl EXCEPT !.pc = "done"]
    /\ UNCHANGED <<op, pc, outcome, result, up, rw, constructed, session_id, rq, net, log, closed, mail>>

NextMisc ==
    \/ loop_write_column
    \/ xl_parse_cell_address_call
    \/ xl_num2col_call
    \/ xl_col2num_call
    \/ xl_shift_cell_call
    \/ xl_shift_cell_again

SpecMisc == InitMisc /\ [][NextMisc]_vars

(* ======================= properties of the claims ====================== *)
\* The part of the log that belongs to the _request call in progress.
CallLog == SubSeq(log, rq.from + 1, Len(log))
IsRequestEv(e) == e.kind # "resp"
CallRequests == SelectSeq(CallLog, IsRequestEv)
KindsOf(s) == [i \in 1..Len(s) |-> s[i].kind]
IsIssue(e) == e.kind = rq.kind
IsCreateSession(e) == e.kind = "createSession"
Issues == Len(SelectSeq(CallLog, IsIssue))
Refreshes == Len(SelectSeq(CallLog, IsCreateSession))

\* The claims' own reading of the responses.
InvalidSessionFailure(r) == r.status >= 400 /\ r.json /\ r.code = "InvalidSession"
Succeeds(r) == r.status >= 200 /\ r.status < 300 /\ r.code = ""
Failing(r) == r.status >= 400 \/ r.code # ""
WorkbookCallDone == IsWorkbook /\ rq.pc = "done"
Reissued == rq.second # NoResp

\* C1: a WorkbookClient request whose first response is an InvalidSession
\* failure and whose reissue succeeds returns to the caller; the request was
\* issued exactly twice with exactly one createSession between the two issues.
C1_ExpiryThenSuccess ==
    (WorkbookCallDone /\ InvalidSessionFailure(rq.first) /\ Reissued /\ Succeeds(rq.second))
        => /\ rq.out = "returned"
           /\ KindsOf(CallRequests) = <<rq.kind, "createSession", rq.kind>>
           /\ Issues = 2
           /\ Refreshes = 1

C1_Witness ==
    /\ op = "request" /\ pc = "done" /\ outcome = "returned"
    /\ InvalidSessionFailure(rq.first) /\ Succeeds(rq.second)

\* C2 as stated: two InvalidSession failures in a row raise to the caller
\* after exactly 2 issues and 1 refresh.
C2_Original ==
    (WorkbookCallDone /\ InvalidSessionFailure(rq.first) /\ Reissued
                      /\ InvalidSessionFailure(rq.second))
        => /\ rq.out = "raised"
           /\ Issues = 2
           /\ Refreshes = 1

\* C2 amended: a WorkbookClient request never issues a third time nor
\* refreshes a second time; after two InvalidSession failures in a row it
\* has issued exactly twice and refreshed once, and it raises to the caller
\* unless the caller set ignore_timeout and the second failure has status 504.
C2_DoubleExpiry ==
    /\ (IsWorkbook /\ rq.pc # "idle") => (Issues <= 2 /\ Refreshes <= 1)
    /\ (WorkbookCallDone /\ InvalidSessionFailure(rq.first) /\ Reissued
                         /\ InvalidSessionFailure(rq.second))
        => /\ Issues = 2
           /\ Refreshes = 1
           /\ KindsOf(CallRequests) = <<rq.kind, "createSession", rq.kind>>
           /\ (rq.out = "raised") <=> ~(rq.ignore_timeout /\ rq.second.status = 504)

C2_Witness ==
    /\ op = "request" /\ pc = "done" /\ outcome = "raised"
    /\ InvalidSessionFailure(rq.first) /\ InvalidSessionFailure(rq.second)

\* C3 as stated: every failing first response other than InvalidSession is
\* issued once, refreshes nothing, keeps session_id and is raised.
C3_Original ==
    (WorkbookCallDone /\ Failing(rq.first) /\ rq.first.code # "InvalidSession")
        => /\ Issues = 1
           /\ Refreshes = 0
           /\ session_id = rq.sid0
           /\ rq.out = "raised"

\* C3 amended: every failing first response other than InvalidSession is
\* issued exactly once, with no createSession and session_id unchanged, and
\* is raised to the caller, except that a 504 is returned without an error
\* when the caller set ignore_timeout.
C3_OtherFailure ==
    (WorkbookCallDone /\ Failing(rq.first) /\ rq.first.code # "InvalidSession")
        => /\ Issues = 1
           /\ Refreshes = 0
           /\ ~Reissued
           /\ session_id = rq.sid0
           /\ (rq.out = "raised") <=> ~(rq.ignore_timeout /\ rq.first.status = 504)

C3_Witness ==
    /\ op = "request" /\ pc = "done" /\ outcome = "raised"
    /\ rq.first.status = 404 /\ rq.first.code = "Other"
    /\ Issues = 1

(* ------------------------- the chunk loops ----------------------------- *)
IsUpload == op \in {"upload_file", "upload_attachment"}
IsRowOp == op \in {"get_range_data", "write_data"}
IsTransferEv(e) == e.kind \in {"chunk", "range"}
Requests == SelectSeq(log, IsRequestEv)
\* The chunk requests of the operation, reissues included.
Transfers == SelectSeq(log, IsTransferEv)
\* The chunk ranges the loop produced: its chunk requests without those
\* that reissue a request after a refresh.
ProducedAt(r, i) ==
    /\ IsTransferEv(r[i])
    /\ i > 1 => r[i - 1].kind # "createSession"
RECURSIVE ProducedUpTo(_, _)
ProducedUpTo(r, i) ==
    IF i = 0 THEN <<>>
    ELSE IF ProducedAt(r, i) THEN Append(ProducedUpTo(r, i - 1), r[i])
         ELSE ProducedUpTo(r, i - 1)
Produced == ProducedUpTo(Requests, Len(Requests))

Items(e) == e.hi - e.lo + 1
\* No gap, no overlap, increasing from offset 0, inside [0, total).
Contiguous(s, total) ==
    /\ Len(s) > 0 => s[1].lo = 0
    /\ \A i \in 1..Len(s) : s[i].lo <= s[i].hi /\ s[i].hi <= total - 1
    /\ \A i \in 1..(Len(s) - 1) : s[i + 1].lo = s[i].hi + 1 /\ s[i].lo < s[i + 1].lo
Covers(s, total) == Len(s) > 0 /\ s[1].lo = 0 /\ s[Len(s)].hi = total - 1

\* The loop ran until its plan was exhausted.
UploadExhausted == IsUpload /\ up.eof
RowsExhausted == IsRowOp /\ pc = "done" /\ outcome = "returned"

\* C4: for every total >= 1 and chunk size >= 1 (bytes per chunk of the
\* uploaders, rows per chunk of get_range_data and write_data) the chunk
\* ranges a loop produces are contiguous from offset 0 in strictly
\* increasing order without gap or overlap, and cover exactly [0, total)
\* when the loop has run to its end.
C4_RangesPartition ==
    /\ (IsUpload /\ up.chunk_size >= 1)
        => /\ Contiguous(Produced, up.file_size)
           /\ (UploadExhausted /\ up.file_size >= 1) => Covers(Produced, up.file_size)
    /\ (IsRowOp /\ rw.row_chunk_size >= 1)
        => /\ Contiguous(Produced, rw.rows)
           /\ (RowsExhausted /\ rw.rows >= 1) => Covers(Produced, rw.rows)

C4_Witness ==
    /\ op = "write_data" /\ RowsExhausted
    /\ rw.rows = 3 /\ rw.row_chunk_size = 2
    /\ Len(Produced) = 2 /\ Len(Transfers) = 3

\* Chunk sizes of a plan of total items in chunks of n.
PlanSizes(s, total, n) ==
    /\ Len(s) = (total + n - 1) \div n
    /\ \A i \in 1..(Len(s) - 1) : Items(s[i]) = n
    /\ Len(s) > 0 => Items(s[Len(s)]) = (IF total % n = 0 THEN n ELSE total % n)
PrefixSizes(s, n) ==
    /\ \A i \in 1..Len(s) : Items(s[i]) >= 1 /\ Items(s[i]) <= n
    /\ \A i \in 1..(Len(s) - 1) : Items(s[i]) = n
\* Each request carries as many items as its range addresses.
CarriesRange(s) == \A i \in 1..Len(s) : s[i].size = Items(s[i])

\* C5: every chunk but the last holds exactly itemsPerChunk items, the last
\* holds totalItems mod itemsPerChunk items (itemsPerChunk when the division
\* is exact), the plan has ceil(totalItems / itemsPerChunk) chunks and none is
\* empty; a written chunk carries as many rows as its range addresses.
C5_ChunkSizes ==
    /\ (IsUpload /\ up.chunk_size >= 1)
        => /\ PrefixSizes(Produced, up.chunk_size)
           /\ CarriesRange(Produced)
           /\ UploadExhausted => PlanSizes(Produced, up.file_size, up.chunk_size)
    /\ (IsRowOp /\ rw.row_chunk_size >= 1)
        => /\ PrefixSizes(Produced, rw.row_chunk_size)
           /\ op = "write_data" => CarriesRange(Produced)
           /\ RowsExhausted => PlanSizes(Produced, rw.rows, rw.row_chunk_size)

C5_Witness ==
    /\ op = "upload_attachment" /\ UploadExhausted
    /\ up.file_size = 3 /\ up.chunk_size = 2
    /\ Len(Produced) = 2 /\ Items(Produced[2]) = 1

RECURSIVE SumSizes(_, _)
SumSizes(s, k) == IF k = 0 THEN 0 ELSE s[k].size + SumSizes(s, k - 1)

\* C6: the k-th chunk request of an upload of totalSize bytes carries the
\* header bytes start-(start+length-1)/totalSize, start being the sum of the
\* lengths of the earlier chunks and length the bytes in this chunk; when
\* the payload is exhausted the last header ends at totalSize-1, and a
\* payload of 10,000,000 bytes in chunks of 5,242,880 gives exactly the
\* headers 0-5242879 and 5242880-9999999, in that order.
C6_ContentRange ==
    IsUpload =>
        /\ \A k \in 1..Len(Transfers) :
            /\ Transfers[k].lo = SumSizes(Transfers, k - 1)
            /\ Transfers[k].hi = Transfers[k].lo + Transfers[k].size - 1
            /\ Transfers[k].total = up.file_size
            /\ Transfers[k].size >= 1
        /\ (UploadExhausted /\ Len(Transfers) > 0)
            => Transfers[Len(Transfers)].hi = up.file_size - 1
        /\ (UploadExhausted /\ up.file_size = 10000000 /\ up.chunk_size = 5242880)
            => Transfers = << Ev("chunk", 0, 5242879, 10000000, 5242880),
                              Ev("chunk", 5242880, 9999999, 10000000, 4757120) >>

C6_Witness ==
    /\ op = "upload_file" /\ UploadExhausted
    /\ up.file_size = 10000000 /\ up.chunk_size = DEFAULT_CHUNK_SIZE
    /\ Len(Transfers) = 2

\* Index in the log of the chunk request before position i (0 when none).
RECURSIVE PrevTransfer(_)
PrevTransfer(i) ==
    IF i <= 1 THEN 0
    ELSE IF IsTransferEv(log[i - 1]) THEN i - 1 ELSE PrevTransfer(i - 1)
AcceptedResp(e) == e.kind = "resp" /\ e.hi = 1
RefusedResp(e) == e.kind = "resp" /\ e.hi = 0

\* C7: the chunk requests of a transfer are strictly sequential and in
\* order: at most one request is on the wire; the request for the next chunk
\* is issued only after the response to the chunk before it was read and
\* accepted, and starts where that chunk ended; the only other chunk request
\* is the one reissue of the same chunk after a session refresh.
C7_Sequential ==
    /\ Len(net) <= 1
    /\ net # <<>> => (Len(log) > 0 /\ net[1].req = log[Len(log)])
    /\ \A i \in 1..Len(log) :
        (IsTransferEv(log[i]) /\ PrevTransfer(i) # 0) =>
            LET j == PrevTransfer(i)
            IN  \/ /\ j = i - 2
                   /\ AcceptedResp(log[i - 1])
                   /\ log[i].lo = log[j].hi + 1
                \/ /\ IsWorkbook
                   /\ j = i - 4
                   /\ RefusedResp(log[i - 3])
                   /\ log[i - 2].kind = "createSession"
                   /\ AcceptedResp(log[i - 1])
                   /\ log[i] = log[j]

C7_Witness ==
    /\ op = "upload_file" /\ pc = "chunk_await"
    /\ Len(net) = 1 /\ Len(Transfers) = 3
    /\ net[1].req = Transfers[3]

\* The response at position i of the log answers a chunk put.
ChunkAnswerAt(i) == i > 1 /\ log[i].kind = "resp" /\ log[i - 1].kind = "chunk"

\* C8 as stated, its first half: in both uploaders a 201 answer to a chunk
\* that does not end the payload stops the upload: no further chunk request
\* is sent and the upload returns successfully.
C8_StopsOnCreated ==
    IsUpload =>
        \A i \in 1..Len(log) :
            (ChunkAnswerAt(i) /\ log[i].lo = 201 /\ log[i - 1].hi < up.file_size - 1)
                => (i = Len(log) /\ pc = "done" /\ outcome = "returned")

\* C9: a chunk request answered with an error status makes the upload raise
\* at once: it is the last event of the upload, no later chunk is sent, the
\* chunk is not resent and no cleanup request follows.
C9_ChunkFailureAborts ==
    IsUpload =>
        \A i \in 1..Len(log) :
            (ChunkAnswerAt(i) /\ log[i].lo >= 400)
                => (i = Len(log) /\ net = <<>> /\ pc = "done" /\ outcome = "raised")

C9_Witness ==
    /\ IsUpload /\ pc = "done" /\ outcome = "raised"
    /\ Len(Transfers) = 2
    /\ ChunkAnswerAt(Len(log)) /\ log[Len(log)].lo = 404

IsContent(e) == e.kind = "content"
IsCreateUpload(e) == e.kind = "createUploadSession"
DirectPuts == SelectSeq(log, IsContent)
UploadSessions == SelectSeq(log, IsCreateUpload)
PastBranch == op = "upload_file" /\ pc \in {"simple", "create_upload", "read", "chunk_await"}

\* C10 as stated: upload_file takes the simple upload exactly when the
\* payload is strictly below UPLOAD_LIMIT.
C10_Original ==
    op = "upload_file" =>
        /\ Len(DirectPuts) > 0 => up.file_size < UPLOAD_LIMIT
        /\ (Len(UploadSessions) > 0 \/ Len(Transfers) > 0) => up.file_size >= UPLOAD_LIMIT

\* C10 amended: upload_file takes the simple upload (exactly one direct PUT
\* carrying the entire payload, no createUploadSession, no chunk request)
\* exactly when the payload size is less than or equal to UPLOAD_LIMIT; for
\* every size strictly above it, it issues no direct PUT, requests an upload
\* session and sends the payload only as chunk requests.
C10_SimpleUploadThreshold ==
    op = "upload_file" =>
        /\ pc = "simple" <=> (PastBranch /\ up.file_size <= UPLOAD_LIMIT)
        /\ Len(DirectPuts) > 0 =>
            /\ up.file_size <= UPLOAD_LIMIT
            /\ Len(DirectPuts) = 1
            /\ DirectPuts[1].size = up.file_size
            /\ Len(UploadSessions) = 0 /\ Len(Transfers) = 0
        /\ (Len(UploadSessions) > 0 \/ Len(Transfers) > 0) =>
            /\ up.file_size > UPLOAD_LIMIT
            /\ Len(UploadSessions) = 1
            /\ Len(DirectPuts) = 0
        /\ (UploadExhausted /\ up.chunk_size # 0) => Len(Transfers) >= 1

C10_Witness ==
    /\ op = "upload_file" /\ pc = "done" /\ outcome = "returned"
    /\ up.file_size = UPLOAD_LIMIT
    /\ Len(DirectPuts) = 1

(* --------------------------- the chunked reader ------------------------ *)
\* The address a is the cell of column number c and row r, written as
\* column letters followed by the row.
AddressIs(a, c, r) ==
    LET p == xl_parse_cell_address(a)
    IN  /\ p.ok
        /\ xl_col2num(p.value.col) = c
        /\ p.value.row = r
        /\ a = p.value.col \o IntToStr(r)
ColOf(a) == xl_col2num(xl_parse_cell_address(a).value.col)
RowOf(a) == xl_parse_cell_address(a).value.row
Min(a, b) == IF a < b THEN a ELSE b
\* The k-th read of a used range at top-left t: its corners.
ReadCorners(e, k, t, rows, cols, n) ==
    /\ AddressIs(e.ul, ColOf(t), RowOf(t) + (k - 1) * n)
    /\ AddressIs(e.br, ColOf(t) + cols - 1, RowOf(t) + Min((k - 1) * n + n - 1, rows - 1))
ReadsPlanned(s, t, rows, cols, n) ==
    \A k \in 1..Len(s) : s[k].kind = "range" /\ ReadCorners(s[k], k, t, rows, cols, n)
ReadDone == op = "get_range_data" /\ pc = "done" /\ outcome = "returned"

RowPlanReached ==
    \/ op = "get_range_data" /\ rw.rows >= 1
    \/ /\ op = "write_data" /\ rw.rows >= 1 /\ rw.cols >= 1
       /\ Len(Requests) > 0 /\ Requests[Len(Requests)].kind \in {"addSheet", "range"}
       /\ AcceptedResp(log[Len(log)])

\* C12 as stated: with a cell budget of at least one cell but smaller than
\* the number of columns, the reader and the writer go on one row per
\* request and cover every row: the operation does not end without having
\* requested rows 0 .. totalRows-1 one by one.
C12_MinOneRow ==
    (IsRowOp /\ pc = "done" /\ RowPlanReached /\ rw.chunk_size >= 1 /\ rw.cols > rw.chunk_size)
        => /\ outcome = "returned"
           /\ Len(Produced) = rw.rows
           /\ Covers(Produced, rw.rows)

\* The chunk size the operation in progress was called with.
CalledChunkSize == IF IsUpload THEN up.chunk_size ELSE rw.chunk_size
IsTransferWork(e) == e.kind \in {"createUploadSession", "chunk", "range"}

\* C13 as stated: a chunked operation called with a chunk size of 0 or less
\* is rejected before any transfer work: it sends no upload-session
\* creation and no chunk request, and it ends by raising, never by
\* returning normally.
C13_RejectsBadChunkSize ==
    ((IsUpload \/ IsRowOp) /\ CalledChunkSize < 1)
        => /\ SelectSeq(log, IsTransferWork) = <<>>
           /\ pc = "done" => outcome = "raised"

(* ----------------------- the session's lifecycle ----------------------- *)
\* A request of the WorkbookClient on the wire that is no createSession.
IsSessionRequest(w) == IsWorkbook /\ w.req.kind # "createSession"

\* C14 as stated: a rejected createSession makes opening the session fail,
\* at construction and in the refresh of the retry rule alike: no
\* WorkbookClient is constructed without a handle, and no request is ever
\* on the wire with a missing (None or empty) session handle.
C14_CreateFailurePropagates ==
    /\ constructed => session_id \in Handles
    /\ \A k \in 1..Len(net) : IsSessionRequest(net[k]) => net[k].sid \in Handles

\* C15 as stated: closing is best-effort: _close_session never raises to
\* its caller whatever the remote answers to closeSession, and a failing
\* close triggers no session refresh and no reissue of the close request.
C15_CloseNeverRaises ==
    op = "close" =>
        /\ outcome # "raised"
        /\ Refreshes = 0
        /\ Issues <= 1

\* C16 as stated: Closed is terminal: once _close_session has been called
\* on a WorkbookClient with an open session, no later operation of that client makes a
\* createSession call, so the session never goes back to Open.
C16_ClosedIsTerminal ==
    (closed /\ op # "close") => SelectSeq(log, IsCreateSession) = <<>>

(* --------------------- the retry rule and the uploads ------------------ *)
SessionSignalAt(i) == ChunkAnswerAt(i) /\ log[i].code = "InvalidSession"
\* No two chunk requests of the sequence name the same first item.
IssuedOnce(s) == \A i, j \in 1..Len(s) : s[i].lo = s[j].lo => i = j

AllUpper(s) == \A i \in 1..Len(s) : IsUpper(s[i])
Num2ColReturned == xl.fn = "xl_num2col" /\ xl.pc # "call"

\* C18: the column names are the bijective base-26 numerals, 1-indexed and
\* with no zero digit.  Every positive number up to MaxColumn gets a
\* non-empty name of upper-case letters from which xl_col2num gives the
\* number back; every non-empty upper-case name gets a number from which
\* xl_num2col gives the name back; and 1, 26, 27, 702, 703 are named
\* A, Z, AA, ZZ, AAA.
C18_ColumnRoundTrip ==
    /\ (Num2ColReturned /\ xl.num >= 1) => (xl.col # <<>> /\ AllUpper(xl.col))
    /\ (Num2ColReturned /\ xl.num = 1) => xl.col = <<"A">>
    /\ (Num2ColReturned /\ xl.num = 26) => xl.col = <<"Z">>
    /\ (Num2ColReturned /\ xl.num = 27) => xl.col = <<"A", "A">>
    /\ (Num2ColReturned /\ xl.num = 702) => xl.col = <<"Z", "Z">>
    /\ (Num2ColReturned /\ xl.num = 703) => xl.col = <<"A", "A", "A">>
    /\ (xl.fn = "xl_num2col" /\ xl.pc = "done" /\ xl.num >= 1) => xl.back = xl.num
    /\ (xl.fn = "xl_col2num" /\ xl.pc = "done" /\ xl.col # <<>> /\ AllUpper(xl.col))
           => xl.back = xl.col

\* The first three-letter name has come back as its number, 703.
C18_Witness ==
    /\ xl.fn = "xl_num2col" /\ xl.pc = "done"
    /\ xl.num = 703 /\ xl.col = <<"A", "A", "A">> /\ xl.back = 703

(* ------------------------------ shifted cells -------------------------- *)
\* The cells handed to xl_shift_cell, with their column number and row.
KnownCells ==
    { [address |-> <<"A", "1">>, c |-> 1, r |-> 1],
      [address |-> <<"B", "7">>, c |-> 2, r |-> 7],
      [address |-> <<"Z", "9">>, c |-> 26, r |-> 9],
      [address |-> <<"A", "A", "1", "0">>, c |-> 27, r |-> 10],
      [address |-> <<"A", "Z", "9", "9">>, c |-> 52, r |-> 99],
      [address |-> <<"Z", "Z", "1", "0", "0">>, c |-> 702, r |-> 100] }
Shifted == CHOOSE t \in KnownCells : t.address = xl.address
ShiftReturned == xl.fn = "xl_shift_cell" /\ xl.pc # "call"
FirstShiftValid ==
    Shifted.r + xl.row_shift >= 1 /\ Shifted.c + xl.col_shift >= 1
BothShiftsValid ==
    /\ FirstShiftValid
    /\ Shifted.r + xl.row_shift + xl.row_shift2 >= 1
    /\ Shifted.c + xl.col_shift + xl.col_shift2 >= 1

\* C19: xl_shift_cell fails whenever the shifted cell would lie above
\* row 1 or left of column 1, so it never returns an address of row 0, of
\* a negative row or without column letters.
C19_RejectsInvalidShift ==
    (ShiftReturned /\ ~FirstShiftValid) => ~xl.out.ok

\* C20: a shift that stays on the sheet returns the address of column
\* c + col_shift and row r + row_shift (B7 shifted by 2 rows and 1 column
\* is C9), and a second such shift of the result gives what one shift by
\* the summed deltas gives.
C20_ShiftAddsDeltas ==
    /\ (ShiftReturned /\ FirstShiftValid) =>
           /\ xl.out.ok
           /\ AddressIs(xl.out.value, Shifted.c + xl.col_shift, Shifted.r + xl.row_shift)
    /\ (ShiftReturned /\ xl.address = <<"B", "7">> /\ xl.row_shift = 2 /\ xl.col_shift = 1)
           => xl.out = Value(<<"C", "9">>)
    /\ (xl.fn = "xl_shift_cell" /\ xl.pc = "done" /\ BothShiftsValid) =>
           /\ xl.out2.ok
           /\ AddressIs(xl.out2.value, Shifted.c + xl.col_shift + xl.col_shift2,
                                       Shifted.r + xl.row_shift + xl.row_shift2)
           /\ xl.out2 = xl_shift_cell(xl.address, xl.row_shift + xl.row_shift2,
                                                  xl.col_shift + xl.col_shift2)

\* B7 was shifted to C9, and C9 then shifted back by the opposite deltas.
C20_Witness ==
    /\ xl.fn = "xl_shift_cell" /\ xl.pc = "done"
    /\ xl.address = <<"B", "7">> /\ xl.row_shift = 2 /\ xl.col_shift = 1
    /\ xl.out = Value(<<"C", "9">>)
    /\ xl.row_shift2 = 0 - 2 /\ xl.col_shift2 = 0 - 1
    /\ xl.out2 = Value(<<"B", "7">>)

(* ------------------------------ parsed addresses ----------------------- *)
\* The longest prefix of s from position k on whose characters are in cls.
RECURSIVE PrefixEnd(_, _, _)
PrefixEnd(s, k, cls) ==
    IF k <= Len(s) /\ s[k] \in cls THEN PrefixEnd(s, k + 1, cls) ELSE k - 1
LeadingLetters(s) == SubSeq(s, 1, PrefixEnd(s, 1, UpperLetters))
FollowingDigits(s) ==
    SubSeq(s, Len(LeadingLetters(s)) + 1, PrefixEnd(s, Len(LeadingLetters(s)) + 1, Digits))
ParseReturned == xl.fn = "xl_parse_cell_address" /\ xl.pc = "done"

\* C21: xl_parse_cell_address gives the letters the address begins with as
\* the column and the digits that follow them as the row, fails when the
\* address has no such letters or no such digits, and gives (B, 2) for the
\* range B2:D4.
C21_ParsesLeadingRuns ==
    /\ (ParseReturned /\ LeadingLetters(xl.address) # <<>> /\ FollowingDigits(xl.address) # <<>>)
           => xl.out = Value([col |-> LeadingLetters(xl.address),
                              row |-> StrToNat(FollowingDigits(xl.address), 1, 0)])
    /\ (ParseReturned /\ (LeadingLetters(xl.address) = <<>> \/ FollowingDigits(xl.address) = <<>>))
           => ~xl.out.ok
    /\ (ParseReturned /\ xl.address = <<"B", "2", ":", "D", "4">>)
           => xl.out = Value([col |-> <<"B">>, row |-> 2])

(* --------------------------- the timeout pass-through ------------------ *)
\* _custom_request has handed its response to _request, which has judged
\* it (a refresh that raised never gets that far).
CallSettled == rq.pc = "done" /\ ~(IsWorkbook /\ NeedsRefresh(rq.first) /\ ~Reissued)
TimedOut == FinalRes.status = 504
WriteChunkSettled == op = "write_data" /\ pc = "chunk_call" /\ CallSettled

\* What _request has done with the response it was handed.
TimeoutPolicy ==
    /\ (CallSettled /\ rq.ignore_timeout /\ TimedOut)
           => /\ rq.out = "returned"
              /\ net = <<>>
              /\ log[Len(log)].kind = "resp"
    /\ (CallSettled /\ ~rq.ignore_timeout /\ TimedOut) => rq.out = "raised"
    /\ (CallSettled /\ rq.out = "returned" /\ Failing(FinalRes))
           => (rq.ignore_timeout /\ TimedOut)
\* What write_data does next with a chunk answered 504.
TimeoutStep ==
    (WriteChunkSettled /\ TimedOut) =>
        IF rq.ignore_timeout
        THEN pc' = "loop" /\ outcome' = outcome /\ rw'.i = rw.i + rw.row_chunk_size
        ELSE pc' = "done" /\ outcome' = "raised" /\ rw'.i = rw.i

\* C22: a 504 handed to _request with ignore_timeout set is returned
\* without an error and without another request, and write_data goes on to
\* the next chunk; without the flag the 504 is raised and write_data ends
\* there; and a failing response is returned only when it is a 504 and the
\* flag is set.
C22_TimeoutPassThrough == []TimeoutPolicy /\ [][TimeoutStep]_vars

\* The first chunk of a longer write was answered 504 and let pass.
C22_Witness ==
    /\ WriteChunkSettled /\ rq.ignore_timeout /\ TimedOut
    /\ rq.out = "returned"
    /\ rw.i = 0 /\ InRange(rw.row_chunk_size, rw.rows, rw.row_chunk_size)

(* ------------------------ failures reach the caller -------------------- *)
\* C23: a remote answer that the code did not accept (and that is no 504
\* let pass by ignore_timeout) ends the operation: the only request that
\* may follow it is the createSession of the session rule, never another
\* request that stands in for the failed one.
C23_FailuresSurface ==
    \A i \in 1..(Len(log) - 1) :
        RefusedResp(log[i]) => log[i + 1].kind = "createSession"

(* --------------------------- what upload_file returns ------------------ *)
\* C24: upload_file hands its caller the metadata of the written file on
\* the simple path and on the chunked path alike; it never returns None
\* after an upload that succeeded.
C24_ReturnsDriveItem ==
    (op = "upload_file" /\ pc = "done" /\ outcome = "returned"
        /\ (SimpleUpload(up.file_size)
               \/ (up.chunk_size >= 1 /\ up.current_bytes = up.file_size)))
        => result # "None"

(* ------------------------- the progress counter ------------------------ *)
\* The bytes of the chunk puts among the first i entries of l whose answer
\* was read and accepted.
RECURSIVE AckedUpTo(_, _)
AckedUpTo(l, i) ==
    IF i = 0 THEN 0
    ELSE AckedUpTo(l, i - 1)
         + (IF l[i].kind = "chunk" /\ i < Len(l) /\ AcceptedResp(l[i + 1]) THEN l[i].size ELSE 0)
AckedBytes == AckedUpTo(log, Len(log))

\* C25 as stated: in every state of a chunked upload current_bytes is the
\* total length of the chunks the remote has acknowledged.
C25_Original == IsUpload => up.current_bytes = AckedBytes

CounterState ==
    IsUpload =>
        /\ up.current_bytes = up.pos
        /\ AckedBytes <= up.current_bytes
        /\ up.current_bytes - AckedBytes \in {0, up.transfer_bytes}
        /\ up.current_bytes <= up.file_size
        /\ pc = "read" => up.current_bytes = AckedBytes
        /\ (up.eof /\ up.chunk_size # 0) => up.current_bytes = up.file_size
CounterStep == (IsUpload /\ op' = op) => up'.current_bytes >= up.current_bytes

\* C25 amended: current_bytes is advanced when a chunk has been read from
\* the payload, before it is sent: it is the number of bytes read so far and
\* runs ahead of the acknowledged total by the chunk in hand, from its
\* reading until its answer is accepted (for good if it is refused or never
\* sent).  Each time the next chunk is about to be read it equals the
\* acknowledged total.  It never decreases, never exceeds the payload size,
\* and equals it when the loop ends on an empty read, unless the chunk size
\* is 0, when the first read is empty.
C25_CounterAheadOfAck == []CounterState /\ [][CounterStep]_vars

\* The second chunk is on the wire, counted and not yet answered.
C25_Witness ==
    /\ IsUpload /\ pc = "chunk_await"
    /\ AckedBytes > 0
    /\ up.current_bytes = AckedBytes + up.transfer_bytes
    /\ up.current_bytes = up.file_size

(* ----------------------------- the session header ---------------------- *)
\* C26: every request a WorkbookClient has on the wire carries the
\* client's session_id as its 'workbook-session-id', whatever header of
\* that name the caller passed; the request reissued after a refresh
\* carries the handle the refresh stored, not the one sent before.
C26_SessionHeader ==
    IsWorkbook =>
        /\ \A i \in 1..Len(net) :
               net[i].req.kind # "createSession" => net[i].sid = session_id
        /\ rq.pc = "retry_await" =>
               /\ Len(net) = 1
               /\ net[1].req.kind = rq.kind
               /\ net[1].sid = session_id
               /\ session_id \in Handles => net[1].sid # rq.sid0

\* A caller passed the handle in use as its own header; the session
\* expired, and the reissue is on the wire with the new handle.
C26_Witness ==
    /\ op = "request" /\ rq.pc = "retry_await"
    /\ rq.sid0 \in Handles /\ rq.input_header = rq.sid0
    /\ session_id \in Handles /\ session_id # rq.sid0
    /\ net[1].sid = session_id

(* ------------------------- a refresh inside a row loop ----------------- *)
RowLoop == IsRowOp /\ rw.row_chunk_size >= 1
RowOpDone == IsRowOp /\ pc = "done" /\ outcome = "returned"
Reissues == Len(Transfers) - Len(Produced)
\* The k-th chunk of a run in which no session expires: a function of the
\* call's arguments and the range alone.
PlannedChunk(e, k) ==
    /\ e.kind = "range"
    /\ e.lo = (k - 1) * rw.row_chunk_size
    /\ e.hi = Min(k * rw.row_chunk_size - 1, rw.rows - 1)
    /\ ReadCorners(e, k, rw.address, rw.rows, rw.cols, rw.row_chunk_size)
\* The createSession at position i of the log stands between a refused
\* request and, once issued, the same request again.
RefreshedChunkAt(i) ==
    /\ RefusedResp(log[i - 1])
    /\ i + 2 <= Len(log) => log[i + 2] = log[i - 2]
\* The createSession at position i of the log answers a chunk's expiry.
ChunkExpiredAt(i) == i > 2 /\ log[i].kind = "createSession" /\ IsTransferEv(log[i - 2])
RefreshState ==
    RowLoop =>
        LET produced == Produced
            transfers == Transfers
            first_row == RowOf(rw.address)
        IN  /\ \A i \in 1..Len(log) :
                   ChunkExpiredAt(i) => RefreshedChunkAt(i)
            /\ \A k \in 1..Len(produced) : PlannedChunk(produced[k], k)
            /\ \A k \in 1..Len(produced) :
                   Cardinality({ i \in 1..Len(transfers) : transfers[i] = produced[k] }) <= 2
            /\ \A k \in 1..Len(rw.data) : rw.data[k] = first_row + k - 1
            /\ RowOpDone =>
                   /\ Len(produced) = (rw.rows + rw.row_chunk_size - 1) \div rw.row_chunk_size
                   /\ Len(rw.data) = rw.rows
\* While a chunk's request is being served, refresh included, the loop's
\* locals stay as they are; the refresh itself changes session_id only.
RefreshStep ==
    /\ (IsRowOp /\ pc = "chunk_call" /\ rq.pc # "done") => rw' = rw
    /\ (IsRowOp /\ rq.pc \in {"refresh", "create_await"}) =>
           /\ <<op, pc, outcome, result, up, rw, constructed>>' =
                  <<op, pc, outcome, result, up, rw, constructed>>
           /\ rq'.kind = rq.kind /\ rq'.lo = rq.lo /\ rq'.hi = rq.hi
           /\ rq'.ul = rq.ul /\ rq'.br = rq.br

\* C27: a session expiry during chunk k of get_range_data or write_data
\* leaves the loop position and the rows gathered as they were; the refresh
\* is followed by the same chunk request again and by no earlier one, no
\* chunk is requested more than twice, and the chunk ranges (reissues set
\* aside) and the rows handed over at the end are those of the run in
\* which no session expires.
C27_RefreshKeepsProgress == []RefreshState /\ [][RefreshStep]_vars

\* A read of several chunks returned all its rows although the session
\* expired at its second chunk.
C27_Witness ==
    /\ ReadDone /\ rw.row_chunk_size >= 1
    /\ Len(Produced) >= 2 /\ Reissues = 1
    /\ Len(SelectSeq(Transfers, LAMBDA e : e = Produced[2])) = 2
    /\ Len(rw.data) = rw.rows

(* ------------------------------- termination --------------------------- *)
CeilDiv(a, b) == (a + b - 1) \div b
\* A row operation that got its plan, with cols >= 1 and chunk_size >= cols.
RowOpPlanned == IsRowOp /\ rw.cols >= 1 /\ rw.chunk_size >= rw.cols /\ rw.row_chunk_size >= 1
PlannedRowChunks == CeilDiv(rw.rows, rw.row_chunk_size)
ChunkExpiries == Cardinality({ i \in 1..Len(log) : ChunkExpiredAt(i) })
UploadSized == IsUpload /\ up.chunk_size >= 1
RequestBounds ==
    /\ RowOpPlanned =>
           /\ Len(Produced) <= PlannedRowChunks
           /\ Len(Transfers) <= 2 * Len(Produced)
           /\ ChunkExpiries <= Len(Produced)
    /\ UploadSized => Len(Transfers) <= CeilDiv(up.file_size, up.chunk_size)
ChunkedOpRunning ==
    \/ IsRowOp /\ (rw.cols = 0 \/ rw.chunk_size >= rw.cols)
    \/ UploadSized
OpEnded == pc = "done" /\ outcome \in {"returned", "raised"}

\* C28: a row operation with cols >= 1 and chunk_size >= cols sends at most
\* two data requests and one createSession for each planned chunk, a
\* chunked upload with a chunk size of at least 1 sends at most
\* ceil(totalSize / chunkSize) chunk requests, and, every request being
\* answered, each of them ends by returning or raising whatever the
\* answers are.
C28_Terminates == []RequestBounds /\ (ChunkedOpRunning ~> OpEnded)

\* Both requests of a chunk were answered with the invalid-session error
\* and the read has ended, raised, after one refresh.
C28_Witness ==
    /\ op = "get_range_data" /\ pc = "done" /\ outcome = "raised"
    /\ RowOpPlanned /\ PlannedRowChunks >= 2
    /\ Len(Transfers) = 2 /\ Len(Produced) = 1 /\ ChunkExpiries = 1

(* --------------------------- column-wise writing ----------------------- *)
LoopWrite == xl.fn = "loop_write"
\* The location k columns to the right of the start, 0 rows down.
ColumnsRight(k) == xl_shift_cell(xl.start, 0, k).value
SheetColumn(location) == xl_parse_cell_address(location).value.col

\* C29: loop_write hands write_data, for its k-th column (0-based), the
\* start location shifted k columns to the right and 0 rows down, and no
\* two columns go to the same sheet column.
C29_ColumnsShiftRight ==
    LoopWrite =>
        /\ \A k \in 1..Len(xl.written) : xl.written[k] = ColumnsRight(k - 1)
        /\ \A j, k \in 1..Len(xl.written) :
               j # k => SheetColumn(xl.written[j]) # SheetColumn(xl.written[k])

(* -------------------------------- send_mail ---------------------------- *)
Mailing == mail.pc # "none"
\* Everything send_mail has issued and read so far, its uploads included.
MailTrace == mail.log \o log
MailRequests == SelectSeq(MailTrace, IsRequestEv)
KindCount(kind) == Len(SelectSeq(MailRequests, LAMBDA e : e.kind = kind))
ElementsOf(s) == { s[i] : i \in 1..Len(s) }
\* Bytes of the first j inline attachments.
RECURSIVE InlineTotal(_)
InlineTotal(j) ==
    IF j = 0 THEN 0 ELSE InlineTotal(j - 1) + mail.sizes[mail.draft_attachments[j]]
\* Upload sessions asked for among the first i requests.
UploadsUpTo(i) ==
    Cardinality({ j \in 1..i : MailRequests[j].kind = "createUploadSession" })
MailReturned == op = "send_mail" /\ pc = "done" /\ outcome = "returned"

\* Smallest first, inline while the running total stays below the limit, and
\* every attachment in exactly one of the two lists.
AttachmentsSplit ==
    LET draft == mail.draft_attachments
        large == mail.large_attachments
        order == draft \o large
    IN  /\ \A j, k \in 1..Len(order) :
               j < k => mail.sizes[order[j]] <= mail.sizes[order[k]]
        /\ \A j \in 1..Len(draft) : InlineTotal(j) < OUTLOOK_UPLOAD_LIMIT
        /\ mail.attachments_size = InlineTotal(Len(draft))
        /\ \A j \in 1..Len(large) :
               mail.attachments_size + mail.sizes[large[j]] >= OUTLOOK_UPLOAD_LIMIT
        /\ \A a \in 1..Len(mail.sizes) : (a \in ElementsOf(draft)) # (a \in ElementsOf(large))
        /\ Len(draft) + Len(large) = Len(mail.sizes)

\* No large attachment: one post to /me/sendMail and nothing else.
SentAtOnce ==
    /\ Len(MailRequests) <= 1
    /\ \A i \in 1..Len(MailRequests) : MailRequests[i].kind = "sendMail"
    /\ MailReturned => Len(MailRequests) = 1

\* Large attachments: one draft, then the uploads in the order of the list,
\* each begun when the one before has returned, then the draft is sent, after
\* all of them and after no refused answer.
SentAsDraft ==
    LET large == mail.large_attachments
        T == MailRequests
    IN  /\ KindCount("sendMail") = 0
        /\ KindCount("draft") <= 1
        /\ T # <<>> => T[1].kind = "draft"
        /\ \A i \in 2..Len(T) : T[i].kind \in {"createUploadSession", "chunk", "sendDraft"}
        /\ KindCount("createUploadSession") <= mail.uploaded + 1
        /\ KindCount("createUploadSession") <= Len(large)
        /\ \A i \in 1..Len(T) :
               T[i].kind = "chunk" =>
                   /\ UploadsUpTo(i) >= 1
                   /\ T[i].total = mail.sizes[large[UploadsUpTo(i)]]
        /\ \A i \in 1..Len(T) :
               T[i].kind = "sendDraft" =>
                   /\ i = Len(T)
                   /\ mail.uploaded = Len(large)
                   /\ KindCount("createUploadSession") = Len(large)
        /\ \A i \in 1..Len(MailTrace) :
               MailTrace[i].kind = "sendDraft" =>
                   \A j \in 1..(i - 1) : ~RefusedResp(MailTrace[j])
        /\ MailReturned => KindCount("sendDraft") = 1

\* C30: send_mail takes the attachments smallest first and keeps them
\* inline while the running total stays strictly below UPLOAD_LIMIT, each
\* attachment in exactly one of the inline and the large list; with no large
\* attachment it posts once to /me/sendMail and creates no draft; otherwise
\* it creates one draft, uploads the large attachments one at a time, and
\* sends the draft only after every upload has returned without error.
C30_SendMailProtocol ==
    Mailing =>
        /\ AttachmentsSplit
        /\ Len(net) <= 1
        /\ IF mail.large_attachments = <<>> THEN SentAtOnce ELSE SentAsDraft

\* A mail with two large attachments was sent: one draft, two uploads, then
\* the send.
C30_Witness ==
    /\ MailReturned
    /\ Len(mail.large_attachments) = 2
    /\ KindCount("draft") = 1
    /\ KindCount("createUploadSession") = 2
    /\ KindCount("chunk") >= 2
    /\ MailRequests[Len(MailRequests)].kind = "sendDraft"

====
